---- MODULE Spec2Model ----
(***************************************************************************)
(* The Paradox Loop CAPTCHA: the session decision engine, the scoring      *)
(* engine, the challenge catalog, the session store and the reclaimer of   *)
(* backend/src/captcha/paradox_loop.py.                                    *)
(*                                                                         *)
(* Conventions                                                             *)
(*  - bot_likelihood is kept in hundredths (0.55 is 55, 1.0 is 100); every *)
(*    value the code produces is a multiple of 0.01, so comparisons with   *)
(*    the threshold are exact.                                             *)
(*  - a string answer is a sequence of one-character strings, so that      *)
(*    len(), set() and positional comparison are computed as the code      *)
(*    computes them.                                                       *)
(*  - sha256 based hashes (recursive_hash, quantum_hash) are collision     *)
(*    free functions of their argument: the hash of s is represented by s. *)
(*  - a Python dict key that is absent is the value "none" / NoResult.     *)
(***************************************************************************)
EXTENDS Integers, Sequences, FiniteSets, TLC

\* ---------------------------------------------------------------------
\* Constants of the program
\* ---------------------------------------------------------------------
SESSION_EXPIRY_SECONDS == 600
MAX_ROUNDS == 20
REQUIRED_HUMAN_SCORE == 5
REQUIRED_CONSECUTIVE_PASSES == 3
TRAP_MODE_THRESHOLD == 55
\* TIME_DILATION_FACTOR = 1.5, kept in halves
TIME_DILATION_FACTOR_X2 == 3
QUANTUM_ENTANGLEMENT_DEPTH == 3
MAX_ANSWER_LENGTH == 1000
RECURSION_DEPTH_WARNING == 5
BOT_TIMING_TOLERANCE_MS == 1000
MAX_STORED_ROUNDS == 5
\* literals of paradox_decide_next and monitor_recursion_loops
DEEP_TRAP_DEPTH == 3
RECLAIM_MIN_ROUNDS == 15
RECLAIM_MIN_DEPTH == 3
\* literals of score_round
DILATION_PENALTY == 30
FATIGUE_FAST_MS == 1500
FATIGUE_MIN_SCORE == 3

\* ---------------------------------------------------------------------
\* Small helpers
\* ---------------------------------------------------------------------
Min(a, b) == IF a < b THEN a ELSE b
Max(a, b) == IF a > b THEN a ELSE b
Abs(a) == IF a < 0 THEN -a ELSE a
Range(s) == {s[i] : i \in DOMAIN s}
\* s[-n:] of Python: the last n elements (all of s when it is shorter)
LastN(s, n) == IF Len(s) <= n THEN s ELSE SubSeq(s, Len(s) - n + 1, Len(s))
\* str(n) for a small non-negative integer, as a sequence of characters
Digit(d) == CASE d = 0 -> "0" [] d = 1 -> "1" [] d = 2 -> "2" [] d = 3 -> "3"
              [] d = 4 -> "4" [] d = 5 -> "5" [] d = 6 -> "6" [] d = 7 -> "7"
              [] d = 8 -> "8" [] OTHER -> "9"
Str(n) == IF n < 10 THEN <<Digit(n)>> ELSE <<Digit(n \div 10), Digit(n % 10)>>

\* ---------------------------------------------------------------------
\* Data: Result, Challenge, Round, Session
\* ---------------------------------------------------------------------
\* round["result"] is None
NoResult == [answered |-> FALSE, answered_at |-> 0, answer |-> <<>>,
             human_score |-> 0, explanation |-> "none", bot_likelihood |-> 0]

\* the result dict; its "meta" entry is stored and never read again, so it is
\* not kept
MkResult(at, answer, hs, expl, bl) ==
    [answered |-> TRUE, answered_at |-> at, answer |-> answer,
     human_score |-> hs, explanation |-> expl, bot_likelihood |-> bl]

\* challenge["context"] == {}
EmptyContext == [has_ref |-> FALSE, ref_hash |-> <<>>, prev_answers |-> <<>>,
                 round_num |-> -1, state |-> "none"]

\* time_dilation: 0 when the key is absent, else the factor in halves (3 is 1.5).
\* has_context / has_validator_key: whether the dict carries the key (both are
\* popped by sanitize_challenge).
MkChallenge(type, ctx) ==
    [type |-> type, validator_key |-> type, context |-> ctx, time_dilation |-> 0,
     has_context |-> TRUE, has_validator_key |-> TRUE]

MkRound(round_id, uid, challenge) ==
    [round_id |-> round_id, uid |-> uid, challenge |-> challenge, result |-> NoResult]

\* the dict built by new_session
MkSession(token, now) ==
    [token |-> token, created_at |-> now, expiry |-> now + SESSION_EXPIRY_SECONDS,
     rounds |-> <<>>, consecutive_passes |-> 0, trap_mode |-> FALSE, trap_depth |-> 0,
     accepted |-> FALSE, quantum_state |-> "none", quantum_future |-> "none"]

\* recursive_hash(token + str(n)): the hash of the concatenation
recursive_hash(seed) == seed
RoundId(token, n) == recursive_hash(<<token>> \o Str(n))
quantum_hash(s) == s

\* ---------------------------------------------------------------------
\* Challenge factories
\* ---------------------------------------------------------------------
ALL_CHALLENGE_FACTORIES ==
    <<"meta_loop", "recursive_paradox", "quantum_state", "temporal_paradox",
      "infinite_regress", "creative_input">>
QuantumStates == {"superposition", "collapsed", "entangled"}

challenge_creative_input == MkChallenge("creative_input", EmptyContext)
challenge_temporal_paradox == MkChallenge("temporal_paradox", EmptyContext)
challenge_infinite_regress == MkChallenge("infinite_regress", EmptyContext)

\* [r["result"]["answer"] for r in session["rounds"] if r.get("result")]
PrevAnswers(session) ==
    LET F[i \in 0..Len(session.rounds)] ==
            IF i = 0 THEN <<>>
            ELSE IF session.rounds[i].result.answered
                 THEN Append(F[i - 1], session.rounds[i].result.answer)
                 ELSE F[i - 1]
    IN F[Len(session.rounds)]

\* A variant the properties below tell apart from the code: a meta-loop
\* challenge built whether or not there is an answer to refer to
challenge_meta_loop_always(session, ref) ==
    MkChallenge("meta_loop",
                [EmptyContext EXCEPT !.has_ref = TRUE, !.ref_hash = quantum_hash(ref),
                                     !.prev_answers = PrevAnswers(session)])

\* ref is the element safe_random_choice drew from prev_answers[-3:]
challenge_meta_loop(session, ref) ==
    LET prev == PrevAnswers(session) IN
    IF prev # <<>>
    THEN MkChallenge("meta_loop",
                     [EmptyContext EXCEPT !.has_ref = TRUE, !.ref_hash = quantum_hash(ref),
                                          !.prev_answers = prev])
    ELSE challenge_creative_input

challenge_recursive_paradox(session) ==
    MkChallenge("recursive_paradox",
                [EmptyContext EXCEPT !.round_num = Len(session.rounds)])

\* qs is the state safe_random_choice drew; the factory also stores it in the session
challenge_quantum_state(qs) ==
    MkChallenge("quantum_state", [EmptyContext EXCEPT !.state = qs])

\* the elements safe_random_choice may draw in challenge_meta_loop
MetaRefs(session) ==
    LET prev == PrevAnswers(session) IN
    IF prev = <<>> THEN {<<>>} ELSE Range(LastN(prev, QUANTUM_ENTANGLEMENT_DEPTH))

\* ---------------------------------------------------------------------
\* Validators: each returns [raised, hs, expl, bl, qf]; qf is the value
\* written to session["quantum_future"] ("keep" when it is not written)
\* ---------------------------------------------------------------------
Score(hs, expl, bl) == [raised |-> FALSE, hs |-> hs, expl |-> expl, bl |-> bl, qf |-> "keep"]
Raised == [raised |-> TRUE, hs |-> 0, expl |-> "raised", bl |-> 0, qf |-> "keep"]

\* A variant the properties below tell apart from the code: the distinct
\* characters counted before the upper length limit is tested
validate_creative_input_reordered(answer) ==
    IF Len(answer) < 3 THEN Score(1, "too short", 90)
    ELSE IF Cardinality(Range(answer)) < 3 THEN Score(1, "low entropy", 90)
    ELSE IF Len(answer) > 100 THEN Score(1, "suspiciously long", 80)
    ELSE Score(4, "creative response", 20)

validate_creative_input(answer) ==
    IF Len(answer) < 3 THEN Score(1, "too short", 90)
    ELSE IF Len(answer) > 100 THEN Score(1, "suspiciously long", 80)
    ELSE IF Cardinality(Range(answer)) < 3 THEN Score(1, "low entropy", 90)
    ELSE Score(4, "creative response", 20)

validate_meta_loop(answer, context) ==
    IF Len(answer) = 0 THEN Score(1, "invalid answer type", 80)
    ELSE
      LET prev == context.prev_answers
          target == prev[Len(prev) - Min(QUANTUM_ENTANGLEMENT_DEPTH, Len(prev)) + 1]
          similarity == Cardinality({i \in 1..Min(Len(answer), Len(target)) :
                                        answer[i] = target[i]})
          \* 0.2 < similarity / len(target) < 0.8
          partial == /\ prev # <<>>
                     /\ Len(target) > 0
                     /\ 5 * similarity > Len(target)
                     /\ 5 * similarity < 4 * Len(target)
      IN IF partial THEN Score(4, "human-like recall", 20)
         ELSE Score(1, "exact or no match", 80)

\* r.get("result", {}).get("human_score", 0) raises AttributeError on a round
\* whose "result" key holds None
validate_recursive_paradox(answer, session, context) ==
    IF \E i \in DOMAIN session.rounds : ~session.rounds[i].result.answered
    THEN Raised
    ELSE
      LET round_num == context.round_num
          correct_count == Cardinality({i \in DOMAIN session.rounds :
                                           session.rounds[i].result.human_score >= 3})
          valid == IF round_num >= 0 /\ answer = Str(round_num)
                       THEN correct_count = round_num
                   ELSE IF answer = <<"T", "r", "u", "e">>
                       THEN 2 * correct_count > round_num
                   ELSE IF answer = <<"F", "a", "l", "s", "e">>
                       THEN 2 * correct_count <= round_num
                   ELSE TRUE
      IN IF valid THEN Score(4, "recursive validation", 30)
         ELSE Score(1, "recursive validation", 70)

QuantumExplanation(state) ==
    CASE state = "collapsed" -> "quantum collapsed"
      [] state = "entangled" -> "quantum entangled"
      [] OTHER -> "quantum superposition"

validate_quantum_state(answer, session) ==
    LET state == IF session.quantum_state = "none" THEN "superposition"
                 ELSE session.quantum_state
        future == IF answer = <<"Y", "E", "S">> THEN "easier"
                  ELSE IF answer = <<"N", "O">> THEN "harder"
                  ELSE IF answer = <<"M", "A", "Y", "B", "E">> THEN "paradox"
                  ELSE "both"
    IN [Score(3, QuantumExplanation(state), 40) EXCEPT !.qf = future]

\* closest[i]: the (time_diff, answer) pair held after the first i rounds
validate_temporal_paradox(answer, session, now) ==
    LET imagined_past == (now - session.created_at) - 5
        C[i \in 0..Len(session.rounds)] ==
            IF i = 0 THEN [some |-> FALSE, diff |-> 0, answer |-> <<>>]
            ELSE LET r == session.rounds[i].result
                     d == Abs(r.answered_at - imagined_past)
                     held == C[i - 1]
                 IN IF ~r.answered THEN held
                    ELSE IF ~held.some \/ d < held.diff
                         THEN [some |-> TRUE, diff |-> d, answer |-> r.answer]
                         ELSE held
        closest == C[Len(session.rounds)]
    IN IF closest.some /\ answer = closest.answer THEN Score(2, "time match", 50)
       ELSE Score(3, "human time variance", 30)

validate_infinite_regress == Score(2, "infinite regress", 60)

VALIDATORS(key, answer, session, context, now) ==
    CASE key = "creative_input" -> validate_creative_input(answer)
      [] key = "meta_loop" -> validate_meta_loop(answer, context)
      [] key = "recursive_paradox" -> validate_recursive_paradox(answer, session, context)
      [] key = "quantum_state" -> validate_quantum_state(answer, session)
      [] key = "temporal_paradox" -> validate_temporal_paradox(answer, session, now)
      [] key = "infinite_regress" -> validate_infinite_regress

\* ---------------------------------------------------------------------
\* Core logic
\* ---------------------------------------------------------------------
\* abs(time_ms - time_ms / factor) > BOT_TIMING_TOLERANCE_MS, factor in halves
DilationDeviates(time_ms, factor_x2) ==
    Abs(factor_x2 * time_ms - 2 * time_ms) > BOT_TIMING_TOLERANCE_MS * factor_x2

\* min(1.0, bot_likelihood + 0.2 * (recursion_depth / 10))
FatigueRaise(bl, recursion_depth) == Min(100, bl + 2 * recursion_depth)

\* A variant the properties below tell apart from the code: a validator's
\* exception scored as a failed round
score_round_harsh(session, challenge, answer, time_ms, now) ==
    LET v == VALIDATORS(challenge.validator_key, answer, session, challenge.context, now)
    IN IF v.raised
       THEN [hs |-> 1, expl |-> "validator error", bl |-> 90, qf |-> "keep"]
       ELSE [hs |-> v.hs, expl |-> v.expl, bl |-> v.bl, qf |-> v.qf]

\* A variant the properties below tell apart from the code: the dilation
\* penalty added without the cap at 1.0
score_round_uncapped(session, challenge, answer, time_ms, now) ==
    LET v == VALIDATORS(challenge.validator_key, answer, session, challenge.context, now)
        bl1 == IF challenge.time_dilation # 0
                  /\ DilationDeviates(time_ms, challenge.time_dilation)
               THEN v.bl + DILATION_PENALTY ELSE v.bl
        recursion_depth == Len(session.rounds)
        bl2 == IF recursion_depth > RECURSION_DEPTH_WARNING
                  /\ v.hs > FATIGUE_MIN_SCORE /\ time_ms < FATIGUE_FAST_MS
               THEN FatigueRaise(bl1, recursion_depth) ELSE bl1
    IN IF v.raised
       THEN [hs |-> 2, expl |-> "validator error", bl |-> 50, qf |-> "keep"]
       ELSE [hs |-> v.hs, expl |-> v.expl, bl |-> bl2, qf |-> v.qf]

score_round(session, challenge, answer, time_ms, now) ==
    LET v == VALIDATORS(challenge.validator_key, answer, session, challenge.context, now)
        bl1 == IF challenge.time_dilation # 0
                  /\ DilationDeviates(time_ms, challenge.time_dilation)
               THEN Min(100, v.bl + DILATION_PENALTY) ELSE v.bl
        recursion_depth == Len(session.rounds)
        bl2 == IF recursion_depth > RECURSION_DEPTH_WARNING
                  /\ v.hs > FATIGUE_MIN_SCORE /\ time_ms < FATIGUE_FAST_MS
               THEN FatigueRaise(bl1, recursion_depth) ELSE bl1
    IN IF v.raised
       THEN [hs |-> 2, expl |-> "validator error", bl |-> 50, qf |-> "keep"]
       ELSE [hs |-> v.hs, expl |-> v.expl, bl |-> bl2, qf |-> v.qf]

\* whether score_round raises instead of returning: the validator returned,
\* meta["time_ms"] is not a number, and it is divided by the challenge's
\* time_dilation or compared with 1500
score_round_raises(session, challenge, answer, is_num, now) ==
    LET v == VALIDATORS(challenge.validator_key, answer, session, challenge.context, now)
    IN /\ ~v.raised
       /\ ~is_num
       /\ \/ challenge.time_dilation # 0
          \/ Len(session.rounds) > RECURSION_DEPTH_WARNING /\ v.hs > FATIGUE_MIN_SCORE

\* A variant the properties below tell apart from the code: only the context
\* is popped
sanitize_context_only(challenge) ==
    [challenge EXCEPT !.has_context = FALSE, !.context = EmptyContext]

\* challenge.copy() with "context" and "validator_key" popped
sanitize_challenge(challenge) ==
    [challenge EXCEPT !.has_context = FALSE, !.context = EmptyContext,
                      !.has_validator_key = FALSE, !.validator_key = "none"]

\* next_challenge is None
NoChallenge == [MkChallenge("none", EmptyContext) EXCEPT !.has_context = FALSE,
                    !.has_validator_key = FALSE, !.validator_key = "none"]
\* next_round_id is None
NoRoundId == <<>>

\* The random draws of one pick_challenge call: the factory drawn from the
\* list (in trap mode the list is random.choices(all six, weights, k = 5), so
\* every factory of positive weight can be in it), the quantum state and
\* the referenced answer.
Draws(session, factories) ==
    {[factory |-> f, qs |-> q, ref |-> a] :
        f \in factories, q \in QuantumStates, a \in MetaRefs(session)}
\* the draws that differ in effect: qs is read by challenge_quantum_state only,
\* ref by challenge_meta_loop only
EffectiveDraws(session, factories) ==
    {d \in Draws(session, factories) :
        /\ d.factory # "quantum_state" => d.qs = "superposition"
        /\ d.factory # "meta_loop" =>
               d.ref = (CHOOSE a \in MetaRefs(session) : TRUE)}

\* the challenge the drawn factory builds
Build(session, d) ==
    CASE d.factory = "meta_loop" -> challenge_meta_loop(session, d.ref)
      [] d.factory = "recursive_paradox" -> challenge_recursive_paradox(session)
      [] d.factory = "quantum_state" -> challenge_quantum_state(d.qs)
      [] d.factory = "temporal_paradox" -> challenge_temporal_paradox
      [] d.factory = "infinite_regress" -> challenge_infinite_regress
      [] d.factory = "creative_input" -> challenge_creative_input

\* A variant the properties below tell apart from the code: a selection that
\* never attaches time_dilation
pick_challenge_undilated(session, trap, d) ==
    [session |-> IF d.factory = "quantum_state"
                 THEN [session EXCEPT !.quantum_state = d.qs] ELSE session,
     challenge |-> Build(session, d)]

\* A variant the properties below tell apart from the code: a selection that
\* follows the hint, the creative-input challenge for a session whose
\* quantum_future is "easier"
pick_challenge_hinted(session, trap, d) ==
    LET e == IF session.quantum_future = "easier"
             THEN [d EXCEPT !.factory = "creative_input"] ELSE d
        ch == Build(session, e)
        s1 == IF e.factory = "quantum_state"
              THEN [session EXCEPT !.quantum_state = e.qs] ELSE session
    IN [session |-> s1,
        challenge |-> IF trap THEN [ch EXCEPT !.time_dilation = TIME_DILATION_FACTOR_X2]
                      ELSE ch]

\* pick_challenge: [session, challenge]; the session changes when the
\* quantum-state factory records the drawn state
pick_challenge(session, trap, d) ==
    LET ch == Build(session, d)
        s1 == IF d.factory = "quantum_state"
              THEN [session EXCEPT !.quantum_state = d.qs] ELSE session
    IN [session |-> s1,
        challenge |-> IF trap THEN [ch EXCEPT !.time_dilation = TIME_DILATION_FACTOR_X2]
                      ELSE ch]

\* index fed to the round id: len(session["rounds"]) before the append
RoundIndex(session) == Len(session.rounds)

\* create_round: the session with the new round appended and the history cut
\* to the last MAX_STORED_ROUNDS rounds
\* A variant the properties below tell apart from the code: the new round put
\* at the head of the history
create_round_at_head(session, challenge, uid) ==
    LET round_obj == MkRound(RoundId(session.token, RoundIndex(session)), uid, challenge)
    IN [session EXCEPT !.rounds = LastN(<<round_obj>> \o session.rounds,
                                         MAX_STORED_ROUNDS)]

create_round(session, challenge, uid) ==
    LET round_obj == MkRound(RoundId(session.token, RoundIndex(session)), uid, challenge)
    IN [session EXCEPT !.rounds = LastN(Append(session.rounds, round_obj),
                                         MAX_STORED_ROUNDS)]

\* A variant the properties below tell apart from the code: a pass that needs
\* only one of the two conditions
PassedEither(res) ==
    res.human_score >= REQUIRED_HUMAN_SCORE \/ res.bot_likelihood < TRAP_MODE_THRESHOLD

Passed(res) ==
    res.human_score >= REQUIRED_HUMAN_SCORE /\ res.bot_likelihood < TRAP_MODE_THRESHOLD

TrapTriggered(res) == res.bot_likelihood >= TRAP_MODE_THRESHOLD

\* A variant of the counter update that deepens the trap only on entering it
UpdateCountersOnEntry(session, res) ==
    LET s1 == [session EXCEPT !.consecutive_passes =
                   IF Passed(res) THEN session.consecutive_passes + 1 ELSE 0]
    IN IF TrapTriggered(res)
       THEN [s1 EXCEPT !.trap_mode = TRUE,
                       !.trap_depth = IF session.trap_mode THEN session.trap_depth
                                      ELSE session.trap_depth + 1]
       ELSE s1

\* lines 519-526: the counters after this round's result
UpdateCounters(session, res) ==
    LET s1 == [session EXCEPT !.consecutive_passes =
                   IF Passed(res) THEN session.consecutive_passes + 1 ELSE 0]
    IN IF TrapTriggered(res)
       THEN [s1 EXCEPT !.trap_mode = TRUE, !.trap_depth = session.trap_depth + 1]
       ELSE s1

ReachedAcceptance(session) == session.consecutive_passes >= REQUIRED_CONSECUTIVE_PASSES
\* Variants of the deep-trap test: one that yields to acceptance, one that fires
\* a level early (trap_depth > 2, as an earlier draft of the server had it)
InDeepTrapUnlessAccepted(session) ==
    session.trap_depth > DEEP_TRAP_DEPTH /\ ~ReachedAcceptance(session)
InDeepTrapEarly(session) == session.trap_depth > DEEP_TRAP_DEPTH - 1
InDeepTrap(session) == session.trap_depth > DEEP_TRAP_DEPTH
\* A variant of the round limit: one round more is allowed
ReachedLimitLate(round_num) == round_num > MAX_ROUNDS
ReachedLimit(round_num) == round_num >= MAX_ROUNDS

Decision(session, accepted, action, next_challenge, next_round_id) ==
    [session |-> session, accepted |-> accepted, action |-> action,
     next_challenge |-> next_challenge, next_round_id |-> next_round_id]

\* paradox_decide_next(session, latest_round): res is latest_round["result"], d the
\* random draws of pick_challenge, uid the identity of the round object created
paradox_decide_next(session, res, d, uid) ==
    LET round_num == Len(session.rounds)
        s2 == UpdateCounters(session, res)
    IN IF InDeepTrap(s2)
       THEN LET s3 == create_round(s2, challenge_infinite_regress, uid)
            IN Decision(s3, FALSE, "deep_trap",
                        sanitize_challenge(challenge_infinite_regress),
                        s3.rounds[Len(s3.rounds)].round_id)
       ELSE IF ReachedAcceptance(s2)
       THEN Decision([s2 EXCEPT !.accepted = TRUE], TRUE, "accepted",
                     NoChallenge, NoRoundId)
       ELSE IF ReachedLimit(round_num)
       THEN IF s2.trap_mode
            THEN Decision(s2, FALSE, "fallback_traditional", NoChallenge, NoRoundId)
            ELSE Decision([s2 EXCEPT !.accepted = TRUE], TRUE, "accepted_after_limit",
                          NoChallenge, NoRoundId)
       ELSE LET p == pick_challenge(s2, s2.trap_mode, d)
                s3 == create_round(p.session, p.challenge, uid)
            IN Decision(s3, FALSE, "continue", sanitize_challenge(p.challenge),
                        s3.rounds[Len(s3.rounds)].round_id)

\* whether this decision created a round (and so consumed a round identity)
CreatesRound(action) == action \in {"deep_trap", "continue"}

\* ---------------------------------------------------------------------
\* Bounds of the model
\* ---------------------------------------------------------------------
\* the epoch second at which the model starts (time.time() at startup)
StartTime == 100000
\* paradox_decide_next exercised on its own: ranges of the session it is given
HMaxPasses == 3
HMaxDepth == 4
HMaxScore == 5
HLikelihoods == {20, 54, 55, 90}
HRoundCounts == {1, MAX_STORED_ROUNDS, MAX_ROUNDS}

\* /respond requests the clients get scored in the server specifications
MaxSubmits == 2

Tokens == {"t1"}
Reqs == {1, 2}
\* what the clients send as answer and meta["time_ms"]: a short answer given
\* fast, a creative answer given slowly
Payload(answer, time_ms) == [answer |-> answer, time_ms |-> time_ms]
Inputs == {Payload(<<"a">>, 100), Payload(<<"a", "b", "c">>, 4000)}

\* ---------------------------------------------------------------------
\* State
\* ---------------------------------------------------------------------
VARIABLES
    backend,          \* "redis" when redis_conn is set, "memory" when it is None
    now,              \* time.time()
    redis,            \* key session:<token> -> the stored JSON document
    trap_depths,      \* the sorted set "trap_depths": token -> score
    memory_sessions,  \* token -> [data, expires]; data is the session dict itself
    req,              \* the /respond requests in progress
    resp,             \* the last response /respond returned
    rc,               \* the monitor_recursion_loops thread
    budget,           \* requests the clients will still get scored
    nextUid,          \* identity of the next round object created
    issued,           \* token -> the round ids issued so far, in order
    h                 \* paradox_decide_next / reclaimer exercised on given inputs

vars == <<backend, now, redis, trap_depths, memory_sessions, req, resp, rc, budget,
          nextUid, issued, h>>

serverVars == <<backend, now, redis, trap_depths, memory_sessions, req, resp, rc,
                budget, nextUid, issued>>

\* ---------------------------------------------------------------------
\* Session storage
\* ---------------------------------------------------------------------
Put(f, k, v) == [x \in DOMAIN f \cup {k} |-> IF x = k THEN v ELSE f[x]]
Drop(f, ks) == [x \in DOMAIN f \ ks |-> f[x]]
Entry(session, t) == [data |-> session, expires |-> t + SESSION_EXPIRY_SECONDS]
HIGH_WATER_MARK == 10000

\* cleanup_memory_sessions: drop the expired entries; above the mark drop the
\* len // 5 entries that expire first
cleanup_memory_sessions(m, t) ==
    LET live == Drop(m, {k \in DOMAIN m : m[k].expires <= t})
        n == Cardinality(DOMAIN live)
        oldest == CHOOSE S \in SUBSET DOMAIN live :
                      /\ Cardinality(S) = n \div 5
                      /\ \A a \in S, b \in DOMAIN live \ S :
                             live[a].expires <= live[b].expires
    IN IF n > HIGH_WATER_MARK THEN Drop(live, oldest) ELSE live

\* redis_conn.setex(key, SESSION_EXPIRY_SECONDS, json.dumps(session))
RedisAfterStore(session) == Put(redis, session.token, Entry(session, now))
\* redis_conn.zadd("trap_depths", ...) when trap_depth > 3
ZsetAfterStore(session) ==
    IF session.trap_depth > 3
    THEN Put(trap_depths, session.token, session.trap_depth) ELSE trap_depths
MemoryAfterStore(session) ==
    cleanup_memory_sessions(Put(memory_sessions, session.token, Entry(session, now)), now)

\* the except path of store_session: the entry is put into the in-process map,
\* without cleanup
MemoryAfterFailedStore(session) ==
    Put(memory_sessions, session.token, Entry(session, now))

\* store_session(session). backend "redis_down": redis_conn is set and its
\* calls raise; setex raises, "except Exception" catches it and writes the
\* in-process map
store_session(session) ==
    IF backend = "redis"
    THEN /\ redis' = RedisAfterStore(session)
         /\ trap_depths' = ZsetAfterStore(session)
         /\ UNCHANGED memory_sessions
    ELSE IF backend = "redis_down"
    THEN /\ memory_sessions' = MemoryAfterFailedStore(session)
         /\ UNCHANGED <<redis, trap_depths>>
    ELSE /\ memory_sessions' = MemoryAfterStore(session)
         /\ UNCHANGED <<redis, trap_depths>>

\* @retry(stop=stop_after_attempt(3), ...): tenacity calls the function again
\* while a call raises and fewer than 3 calls were made
STOP_AFTER_ATTEMPT == 3
RECURSIVE Attempts(_, _)
Attempts(made, raises) ==
    IF raises /\ made < STOP_AFTER_ATTEMPT THEN Attempts(made + 1, raises) ELSE made
\* whether a call of store_session raises: its body is one try statement whose
\* "except Exception" clause writes the in-process map and returns
StoreRaises == FALSE

\* get_session(token) finds a session; with redis_conn set it asks Redis only,
\* and a call that raises gives None
Found(token) ==
    IF backend = "redis"
    THEN token \in DOMAIN redis /\ redis[token].expires > now
    ELSE IF backend = "redis_down"
    THEN FALSE
    ELSE token \in DOMAIN memory_sessions /\ memory_sessions[token].expires > now
\* the session get_session(token) returns: json.loads of the stored document,
\* or the stored dict itself
Got(token) ==
    IF backend = "redis" THEN redis[token].data ELSE memory_sessions[token].data
\* get_session deletes the entry of the in-process map that it finds expired
MemoryAfterGet(token) ==
    IF backend = "memory" /\ token \in DOMAIN memory_sessions
       /\ memory_sessions[token].expires <= now
    THEN Drop(memory_sessions, {token}) ELSE memory_sessions

\* next(r for r in session["rounds"] if r["round_id"] == round_id): its index, 0 if none
FindRound(session, round_id) ==
    LET hits == {i \in DOMAIN session.rounds : session.rounds[i].round_id = round_id}
    IN IF hits = {} THEN 0 ELSE CHOOSE i \in hits : \A j \in hits : i <= j
\* the round object a handler holds, looked up by identity; 0 when the list no
\* longer holds it
FindObject(session, uid) ==
    LET hits == {i \in DOMAIN session.rounds : session.rounds[i].uid = uid}
    IN IF hits = {} THEN 0 ELSE CHOOSE i \in hits : TRUE

\* ---------------------------------------------------------------------
\* Payload signatures
\* ---------------------------------------------------------------------
\* the key made from the HMAC_SECRET environment variable at startup
HMAC_SECRET == "secret"

\* json.dumps(obj, separators, sort_keys=True): the members in key order; an
\* empty payload has none
canonical_json_obj(obj) ==
    IF ~obj.body THEN <<>>
    ELSE <<<<"answer", obj.answer, obj.is_str>>, <<"meta", obj.time_ms, obj.is_num>>,
           <<"round_id", obj.round_id>>, <<"token", obj.token>>>>

\* hmac.new(key, msg, sha256).hexdigest(): equal digests for equal key and
\* message only
hmac_new(key, msg) == [key |-> key, msg |-> msg]
\* request.headers.get("X-Payload-Signature") is None
NoSignature == [key |-> "", msg |-> <<>>]

generate_hmac_signature(payload_obj) ==
    hmac_new(HMAC_SECRET, canonical_json_obj(payload_obj))

\* A variant the properties below tell apart from the code: a digest compared
\* without its key
verify_unkeyed(payload_obj, signature) ==
    signature.msg = canonical_json_obj(payload_obj)

\* hmac.compare_digest(expected, signature)
verify_hmac_signature(payload_obj, signature) ==
    generate_hmac_signature(payload_obj) = signature

\* ---------------------------------------------------------------------
\* Requests and responses
\* ---------------------------------------------------------------------
NoSession == MkSession("none", 0)
\* what a client can get wrong in a /respond request: no JSON body, no token,
\* no signature header, a signature made with another key, a signature made
\* for the payload before the answer was changed, no round_id, an answer that
\* is not a string, a meta["time_ms"] that is not a number
NoFaults == {"none"}
Faults == {"none", "no_body", "no_token", "no_signature", "wrong_key",
           "stale_signature", "no_round_id", "answer_not_string", "bad_time_ms"}

\* request.get_json(force=True): body tells an empty payload from a filled one,
\* is_str whether "answer" is a str, is_num whether meta["time_ms"] is a number
ClientPayload(f, t, rid, in) ==
    [body |-> f # "no_body",
     token |-> IF f = "no_token" THEN "" ELSE t,
     round_id |-> IF f = "no_round_id" THEN NoRoundId ELSE rid,
     answer |-> in.answer, is_str |-> f # "answer_not_string",
     time_ms |-> in.time_ms, is_num |-> f # "bad_time_ms"]
NoPayload == ClientPayload("no_body", "", NoRoundId, Payload(<<>>, 0))

\* the X-Payload-Signature header the client sends
ClientSignature(f, payload) ==
    CASE f = "no_signature" -> NoSignature
      [] f = "wrong_key" -> hmac_new("guess", canonical_json_obj(payload))
      [] f = "stale_signature" ->
             generate_hmac_signature([payload EXCEPT !.answer = Append(@, "z")])
      [] OTHER -> generate_hmac_signature(payload)

IdleReq == [pc |-> "idle", token |-> "none", round_id |-> NoRoundId, uid |-> 0,
            challenge |-> NoChallenge, answer |-> <<>>, time_ms |-> 0,
            session |-> NoSession, payload |-> NoPayload, signature |-> NoSignature]

\* what a session's counters were when a round was scored
Counters(session) ==
    [consecutive_passes |-> session.consecutive_passes, trap_mode |-> session.trap_mode,
     trap_depth |-> session.trap_depth, rounds |-> Len(session.rounds)]

NoResp == [endpoint |-> "none", expires_in |-> 0, drawn |-> "none",
           status |-> 0, error |-> "none", raised_status |-> 0, raised_error |-> "none",
           human_score |-> 0, explanation |-> "none",
           bot_likelihood |-> 0, accepted |-> FALSE, action |-> "none", trap_depth |-> 0,
           consecutive_passes |-> 0, next_challenge |-> NoChallenge,
           next_round_id |-> NoRoundId,
           token |-> "none", uid |-> 0, challenge |-> NoChallenge, answer |-> <<>>,
           resolved |-> FALSE, loaded |-> FALSE,
           before |-> Counters(NoSession), after |-> Counters(NoSession)]

\* abort(status, message) inside the handler's try block: the HTTPException
\* it raises is an Exception, so the handler's own "except Exception" clause
\* catches it and calls abort(500); the client gets the body of
\* internal_error_handler. raised_status and raised_error keep what the first
\* abort was called with.
ErrResp(status, error) ==
    [NoResp EXCEPT !.endpoint = "respond",
                   !.status = 500, !.error = "internal_server_error",
                   !.raised_status = status, !.raised_error = error]

\* an abort after get_session was called
LoadedErr(status, error) == [ErrResp(status, error) EXCEPT !.loaded = TRUE]

\* the JSON body of a 200 response of /respond; token, uid, challenge, answer,
\* resolved, loaded, drawn, before and after are not sent: they record which
\* round object was scored, with which challenge and answer, whether the stored
\* session already held a result for it, whether get_session was called, which
\* factory pick_challenge drew, and the session counters around
\* paradox_decide_next
OkResp(rq, res, dec, before, resolved, drawn) ==
    [endpoint |-> "respond", expires_in |-> 0,
     drawn |-> IF dec.action = "continue" THEN drawn ELSE "none",
     status |-> 200, error |-> "none", raised_status |-> 0, raised_error |-> "none",
     human_score |-> res.human_score,
     explanation |-> res.explanation, bot_likelihood |-> res.bot_likelihood,
     accepted |-> dec.accepted, action |-> dec.action,
     trap_depth |-> dec.session.trap_depth,
     consecutive_passes |-> dec.session.consecutive_passes,
     next_challenge |-> dec.next_challenge, next_round_id |-> dec.next_round_id,
     token |-> rq.token, uid |-> rq.uid, challenge |-> rq.challenge,
     answer |-> rq.answer, resolved |-> resolved, loaded |-> TRUE,
     before |-> before, after |-> Counters(dec.session)]

\* the JSON body of a 200 response of /session: token, challenge, round_id,
\* expires_in; the challenge and the round id are held in next_challenge and
\* next_round_id
SessionResp(session, challenge, round_id, t, drawn) ==
    [NoResp EXCEPT !.endpoint = "session", !.status = 200, !.token = session.token,
                   !.drawn = drawn,
                   !.next_challenge = sanitize_challenge(challenge),
                   !.next_round_id = round_id,
                   !.expires_in = session.expiry - t]

\* api_new_session: new_session (which stores the empty session), pick_challenge,
\* create_round, store_session, respond
CreateSession(factories) ==
    \E t \in Tokens \ DOMAIN issued :
      \E d \in EffectiveDraws(MkSession(t, now), factories) :
        LET p == pick_challenge(MkSession(t, now), FALSE, d)
            s1 == create_round(p.session, p.challenge, nextUid)
        IN /\ store_session(s1)
           /\ nextUid' = nextUid + 1
           /\ issued' = Put(issued, t, <<s1.rounds[1].round_id>>)
           /\ resp' = SessionResp(s1, p.challenge, s1.rounds[1].round_id, now,
                                   d.factory)
           /\ UNCHANGED <<backend, now, req, rc, budget, h>>

\* the round ids a client sends: those of the latest rounds it was given, the
\* stored ones and one the history no longer holds
ClientIds(t) ==
    IF t \in DOMAIN issued THEN Range(LastN(issued[t], MAX_STORED_ROUNDS + 1))
    ELSE {RoundId(t, 0)}

\* api_respond up to the length check: the payload is read, the signature
\* verified, the session loaded, the round looked up. The client names a round
\* id it was given. A request that is rejected here changes nothing but the
\* response; budget counts the requests that go on to be scored.
Rejected(error_resp) == resp' = error_resp /\ UNCHANGED <<req, budget>>
\* rejected before get_session
Refused(error_resp) == Rejected(error_resp) /\ UNCHANGED memory_sessions

ReqLoad(r, inputs, faults) ==
    /\ req[r].pc = "idle"
    /\ \E f \in faults : \E t \in Tokens : \E rid \in ClientIds(t) : \E in \in inputs :
         LET payload == ClientPayload(f, t, rid, in)
             client_signature == ClientSignature(f, payload)
         IN IF ~payload.body
            THEN Refused(ErrResp(400, "Invalid JSON payload"))
            ELSE IF payload.token = ""
            THEN Refused(ErrResp(400, "Missing token"))
            ELSE IF client_signature = NoSignature
            THEN Refused(ErrResp(403, "Missing X-Payload-Signature header"))
            ELSE IF ~verify_hmac_signature(payload, client_signature)
            THEN Refused(ErrResp(403, "Invalid signature"))
            ELSE
              /\ memory_sessions' = MemoryAfterGet(t)
              /\ IF ~Found(t)
                 THEN Rejected(LoadedErr(404, "Session not found or expired"))
                 ELSE IF payload.round_id = NoRoundId
                 THEN Rejected(LoadedErr(400, "Missing round_id"))
                 ELSE
                   LET session == Got(t)
                       i == FindRound(session, rid)
                   IN IF i = 0
                      THEN Rejected(LoadedErr(404, "Round not found"))
                      ELSE IF session.rounds[i].result.answered
                      THEN Rejected(LoadedErr(400, "Round already answered"))
                      ELSE IF ~payload.is_str
                      THEN Rejected(LoadedErr(400, "Answer must be string"))
                      ELSE IF Len(payload.answer) > MAX_ANSWER_LENGTH
                      THEN Rejected(LoadedErr(400, "Answer too long"))
                      ELSE /\ budget > 0
                           /\ budget' = budget - 1
                           /\ req' = [req EXCEPT ![r] =
                                  [pc |-> "scoring", token |-> t, round_id |-> rid,
                                   uid |-> session.rounds[i].uid,
                                   challenge |-> session.rounds[i].challenge,
                                   answer |-> payload.answer,
                                   time_ms |-> payload.time_ms,
                                   session |-> session,
                                   payload |-> payload,
                                   signature |-> client_signature]]
                           /\ UNCHANGED resp
    /\ UNCHANGED <<backend, now, redis, trap_depths, rc, nextUid, issued, h>>

\* the session dict the handler works on: its own copy (json.loads), or the dict
\* the in-process map holds, which every thread shares
Working(r) ==
    IF backend = "memory" /\ req[r].token \in DOMAIN memory_sessions
    THEN memory_sessions[req[r].token].data ELSE req[r].session

\* round_obj["result"] = {...}: the result is written into the round object held
WriteResult(session, uid, res) ==
    LET i == FindObject(session, uid)
    IN IF i = 0 THEN session ELSE [session EXCEPT !.rounds[i].result = res]

\* whether the stored session holds a result for the round object uid
Resolved(token, uid) ==
    /\ Found(token)
    /\ LET i == FindObject(Got(token), uid)
       IN i # 0 /\ Got(token).rounds[i].result.answered

\* api_respond from score_round on: score, record the result, decide, store,
\* respond. When score_round raises, the handler answers 500 and stores
\* nothing; what the validator wrote into the session dict stays in a dict the
\* in-process map holds.
ReqFinish(r, factories) ==
    /\ req[r].pc = "scoring"
    /\ \E rq \in {req[r]} :
       \E base \in {Working(r)} :
       \E sc \in {score_round(base, rq.challenge, rq.answer, rq.time_ms, now)} :
       \E s1 \in {IF sc.qf = "keep" THEN base ELSE [base EXCEPT !.quantum_future = sc.qf]} :
          IF score_round_raises(base, rq.challenge, rq.answer, rq.payload.is_num, now)
          THEN /\ resp' = [LoadedErr(500, "TypeError") EXCEPT !.token = rq.token]
               /\ memory_sessions' =
                      IF backend = "memory" /\ rq.token \in DOMAIN memory_sessions
                      THEN [memory_sessions EXCEPT ![rq.token].data = s1]
                      ELSE memory_sessions
               /\ UNCHANGED <<redis, trap_depths, nextUid, issued>>
          ELSE \E res \in {MkResult(now, rq.answer, sc.hs, sc.expl, sc.bl)} :
               \E s2 \in {WriteResult(s1, rq.uid, res)} :
               \E d \in EffectiveDraws(s2, factories) :
               \E dec \in {paradox_decide_next(s2, res, d, nextUid)} :
                    /\ store_session(dec.session)
                    /\ resp' = OkResp(rq, res, dec, Counters(base),
                                      Resolved(rq.token, rq.uid), d.factory)
                    /\ nextUid' = IF CreatesRound(dec.action) THEN nextUid + 1
                                  ELSE nextUid
                    /\ issued' = IF CreatesRound(dec.action)
                                 THEN [issued EXCEPT ![rq.token] =
                                          Append(@, dec.next_round_id)]
                                 ELSE issued
    /\ req' = [req EXCEPT ![r] = IdleReq]
    /\ UNCHANGED <<backend, now, rc, budget, h>>

\* ---------------------------------------------------------------------
\* The reclaimer: monitor_recursion_loops
\* ---------------------------------------------------------------------
\* Variants of the condition: one that takes the accepted flag the wrong way
\* round, one that does not look at it
QualifiesInverted(session) ==
    /\ Len(session.rounds) > RECLAIM_MIN_ROUNDS
    /\ session.trap_depth > RECLAIM_MIN_DEPTH
    /\ session.accepted
QualifiesAccepted(session) ==
    /\ Len(session.rounds) > RECLAIM_MIN_ROUNDS
    /\ session.trap_depth > RECLAIM_MIN_DEPTH

\* len(session["rounds"]) > 15 and trap_depth > 3 and not accepted
Qualifies(session) ==
    /\ Len(session.rounds) > RECLAIM_MIN_ROUNDS
    /\ session.trap_depth > RECLAIM_MIN_DEPTH
    /\ ~session.accepted

\* rounds[-MAX_STORED_ROUNDS:] and trap_depth = max(0, trap_depth - 1)
Reclaimed(session) ==
    [session EXCEPT !.rounds = LastN(session.rounds, MAX_STORED_ROUNDS),
                    !.trap_depth = Max(0, session.trap_depth - 1)]

\* last: the latest session the sweep handled: what it read, and what the store
\* held for the token right before and right after the sweep dealt with it
NoSweep == [valid |-> FALSE, token |-> "none", read |-> NoSession, before |-> NoSession,
            stored |-> NoSession]
\* swept: a sweep has run to its end
IdleRc == [pc |-> "idle", todo |-> {}, token |-> "none", session |-> NoSession,
           last |-> NoSweep, swept |-> FALSE]

\* start of one sweep: redis_conn.zrangebyscore("trap_depths", 3, inf), or
\* cleanup_memory_sessions() and list(memory_sessions.items())
RcScan ==
    /\ rc.pc = "idle"
    /\ IF backend = "redis"
       THEN /\ rc' = [rc EXCEPT !.pc = "sweep",
                         !.todo = {t \in DOMAIN trap_depths : trap_depths[t] >= 3}]
            /\ UNCHANGED memory_sessions
       ELSE /\ memory_sessions' = cleanup_memory_sessions(memory_sessions, now)
            /\ rc' = [rc EXCEPT !.pc = "sweep", !.todo = DOMAIN memory_sessions']
    /\ UNCHANGED <<backend, now, redis, trap_depths, req, resp, budget, nextUid, issued, h>>

\* redis: data = redis_conn.get("session:" + token); a missing key is removed from
\* the sorted set
RcGet ==
    /\ rc.pc = "sweep" /\ backend = "redis"
    /\ \E t \in rc.todo :
         IF Found(t)
         THEN /\ rc' = [rc EXCEPT !.pc = "loaded", !.todo = rc.todo \ {t}, !.token = t,
                                  !.session = Got(t)]
              /\ UNCHANGED trap_depths
         ELSE /\ rc' = [rc EXCEPT !.todo = rc.todo \ {t}]
              /\ trap_depths' = Drop(trap_depths, {t})
    /\ UNCHANGED <<backend, now, redis, memory_sessions, req, resp, budget, nextUid,
                   issued, h>>

\* redis: the condition, the truncation and the decay on the loaded copy, store_session
RcPut ==
    /\ rc.pc = "loaded" /\ backend = "redis"
    /\ IF Qualifies(rc.session)
       THEN store_session(Reclaimed(rc.session))
       ELSE UNCHANGED <<redis, trap_depths, memory_sessions>>
    /\ rc' = [rc EXCEPT !.pc = "sweep", !.token = "none", !.session = NoSession,
                        !.last = [valid |-> TRUE, token |-> rc.token, read |-> rc.session,
                                  before |-> redis[rc.token].data,
                                  stored |-> redis'[rc.token].data]]
    /\ UNCHANGED <<backend, now, req, resp, budget, nextUid, issued, h>>

\* in-process map: session = data['data'] is the stored dict itself; it is changed
\* in place and put back when the token is still in the map
RcMem ==
    /\ rc.pc = "sweep" /\ backend = "memory"
    /\ \E t \in rc.todo :
         IF t \in DOMAIN memory_sessions
         THEN LET session == memory_sessions[t].data
              IN /\ memory_sessions' =
                        IF Qualifies(session)
                        THEN [memory_sessions EXCEPT ![t].data = Reclaimed(session)]
                        ELSE memory_sessions
                 /\ rc' = [rc EXCEPT !.todo = rc.todo \ {t},
                                     !.last = [valid |-> TRUE, token |-> t, read |-> session,
                                               before |-> session,
                                               stored |-> memory_sessions'[t].data]]
         ELSE /\ rc' = [rc EXCEPT !.todo = rc.todo \ {t}]
              /\ UNCHANGED memory_sessions
    /\ UNCHANGED <<backend, now, redis, trap_depths, req, resp, budget, nextUid, issued, h>>

\* the sweep is over: time.sleep(30) until the next one
RcSleep ==
    /\ rc.pc = "sweep" /\ rc.todo = {}
    /\ rc' = [rc EXCEPT !.pc = "idle", !.swept = TRUE]
    /\ UNCHANGED <<backend, now, redis, trap_depths, memory_sessions, req, resp, budget,
                   nextUid, issued, h>>

\* ---------------------------------------------------------------------
\* The server from startup: a session is created and its rounds are answered,
\* one request at a time
\* ---------------------------------------------------------------------
EmptyMap == [x \in {} |-> 0]
NoHarness == [phase |-> "off", session |-> NoSession, res |-> NoResult,
              dec |-> Decision(NoSession, FALSE, "none", NoChallenge, NoRoundId)]
Backends == {"redis", "memory"}
Factories == Range(ALL_CHALLENGE_FACTORIES)

InitServer(submits) ==
    /\ backend \in Backends
    /\ now = StartTime
    /\ redis = EmptyMap
    /\ trap_depths = EmptyMap
    /\ memory_sessions = EmptyMap
    /\ req = [r \in Reqs |-> IdleReq]
    /\ resp = NoResp
    /\ rc = IdleRc
    /\ budget = submits
    /\ nextUid = 1
    /\ issued = EmptyMap

Init == InitServer(MaxSubmits) /\ h = NoHarness

NewSession == CreateSession(Factories)
Load == ReqLoad(1, Inputs, NoFaults)
Finish == ReqFinish(1, Factories)

Next == NewSession \/ Load \/ Finish

Spec == Init /\ [][Next]_vars

\* ---------------------------------------------------------------------
\* paradox_decide_next on its own: the session and the latest round's result
\* are drawn, the function is applied once
\* ---------------------------------------------------------------------
\* a result dict carrying the given scores
HResult(hs, bl) == MkResult(StartTime, <<"a", "b", "c">>, hs, "drawn", bl)

\* n rounds of a session, all answered; the latest one carries res
HRounds(token, n, res) ==
    [i \in 1..n |->
        [MkRound(RoundId(token, i - 1), i, challenge_creative_input) EXCEPT
            !.result = IF i = n THEN res ELSE HResult(3, 30)]]

HSession(passes, depth, n, res) ==
    [MkSession("t1", StartTime) EXCEPT
        !.rounds = HRounds("t1", n, res), !.consecutive_passes = passes,
        !.trap_mode = (depth > 0), !.trap_depth = depth]

InitDecide ==
    /\ InitServer(0)
    /\ backend = "memory"
    /\ \E passes \in 0..HMaxPasses, depth \in 0..HMaxDepth, n \in HRoundCounts,
          hs \in 1..HMaxScore, bl \in HLikelihoods :
         h = [NoHarness EXCEPT !.phase = "input", !.res = HResult(hs, bl),
                               !.session = HSession(passes, depth, n, HResult(hs, bl))]

\* decision = paradox_decide_next(session, latest_round)
Decide ==
    /\ h.phase = "input"
    /\ \E d \in EffectiveDraws(h.session, Factories) :
         h' = [h EXCEPT !.phase = "output",
                        !.dec = paradox_decide_next(h.session, h.res, d,
                                                    Len(h.session.rounds) + 1)]
    /\ UNCHANGED serverVars

NextDecide == Decide

SpecDecide == InitDecide /\ [][NextDecide]_vars

\* ---------------------------------------------------------------------
\* validate_creative_input on its own: answers of lengths around both length
\* limits, made of one to CMaxChars distinct characters
\* ---------------------------------------------------------------------
CMaxShort == 8
CLongFrom == 96
CLongTo == 103
CMaxChars == 4
Alphabet == <<"a", "b", "c", "d", "e", "f">>
\* n characters, the first k letters of the alphabet in turn
Cycle(n, k) == [i \in 1..n |-> Alphabet[((i - 1) % k) + 1]]
CAnswers ==
    {Cycle(n, k) : n \in (0..CMaxShort) \cup (CLongFrom..CLongTo),
                   k \in 1..Min(CMaxChars, Len(Alphabet))}
NoValidation == [phase |-> "off", answer |-> <<>>, result |-> Raised]

InitCreative ==
    /\ InitServer(0)
    /\ backend = "memory"
    /\ \E a \in CAnswers : h = [NoValidation EXCEPT !.phase = "input", !.answer = a]

\* result = validate_creative_input(answer, meta, session, context)
ValidateCreative ==
    /\ h.phase = "input"
    /\ h' = [h EXCEPT !.phase = "output", !.result = validate_creative_input(h.answer)]
    /\ UNCHANGED serverVars

NextCreative == ValidateCreative
SpecCreative == InitCreative /\ [][NextCreative]_vars

\* ---------------------------------------------------------------------
\* validate_meta_loop on its own: a meta-loop challenge built over a session
\* with one to MMaxPrev answered rounds, then one answer validated
\* ---------------------------------------------------------------------
MMaxPrev == 4
MAnswers == {<<"a", "b", "c">>, <<"a", "b", "x">>, <<"x", "y", "z">>}
\* a session the server holds after creative-input rounds answered with the
\* given answers, in order: each of them scores (4, 0.2), no pass and no trap
History(answers) ==
    [MkSession("t1", StartTime) EXCEPT
        !.rounds = [i \in 1..Len(answers) |->
                       LET v == validate_creative_input(answers[i])
                       IN [MkRound(RoundId("t1", i - 1), i, challenge_creative_input)
                              EXCEPT !.result = MkResult(StartTime, answers[i], v.hs,
                                                         v.expl, v.bl)]]]
Histories == UNION {[1..n -> MAnswers] : n \in 1..MMaxPrev}
NoMeta == [phase |-> "off", ref |-> <<>>, challenge |-> challenge_creative_input,
           answer |-> <<>>, result |-> Raised]

InitMeta ==
    /\ InitServer(0)
    /\ backend = "memory"
    /\ \E answers \in Histories :
         \E ref \in Range(LastN(answers, QUANTUM_ENTANGLEMENT_DEPTH)) :
           h = [NoMeta EXCEPT !.phase = "input", !.ref = ref,
                              !.challenge = challenge_meta_loop(History(answers), ref)]

\* result = validate_meta_loop(answer, meta, session, context)
ValidateMeta ==
    /\ h.phase = "input"
    /\ \E a \in MAnswers :
         h' = [h EXCEPT !.phase = "output", !.answer = a,
                        !.result = validate_meta_loop(a, h.challenge.context)]
    /\ UNCHANGED serverVars

NextMeta == ValidateMeta
SpecMeta == InitMeta /\ [][NextMeta]_vars

\* ---------------------------------------------------------------------
\* validate_temporal_paradox on its own: a session created TMaxAge seconds
\* ago with up to two rounds answered since, and the temporal-paradox round
\* that is being scored
\* ---------------------------------------------------------------------
TMaxAge == 12
TMaxAnswered == 2
\* how many seconds before the scoring a round was answered
TAges == {0, 2, 5, 8, TMaxAge}
TSession(ages, answers) ==
    LET past == History(answers)
        answered == [i \in 1..Len(answers) |->
                        [past.rounds[i] EXCEPT !.result.answered_at = StartTime - ages[i]]]
    IN create_round([past EXCEPT !.created_at = StartTime - TMaxAge,
                                 !.expiry = StartTime - TMaxAge + SESSION_EXPIRY_SECONDS,
                                 !.rounds = answered],
                    challenge_temporal_paradox, Len(answers) + 1)
NoTemporal == [phase |-> "off", session |-> MkSession("t1", StartTime),
               answer |-> <<>>, result |-> Raised]

InitTemporal ==
    /\ InitServer(0)
    /\ backend = "memory"
    /\ \E n \in 0..TMaxAnswered :
         \E ages \in [1..n -> TAges], answers \in [1..n -> MAnswers] :
           /\ \A i, j \in 1..n : i <= j => ages[i] >= ages[j]
           /\ h = [NoTemporal EXCEPT !.phase = "input",
                                     !.session = TSession(ages, answers)]

\* result = validate_temporal_paradox(answer, meta, session, context)
ValidateTemporal ==
    /\ h.phase = "input"
    /\ \E a \in MAnswers :
         h' = [h EXCEPT !.phase = "output", !.answer = a,
                        !.result = validate_temporal_paradox(a, h.session, now)]
    /\ UNCHANGED serverVars

NextTemporal == ValidateTemporal
SpecTemporal == InitTemporal /\ [][NextTemporal]_vars

\* ---------------------------------------------------------------------
\* Two sessions that differ in quantum_future only, answered in lock step:
\* each step gives both the same answer and the same random draws
\* ---------------------------------------------------------------------
TwSteps == 2
\* the values validate_quantum_state writes
Futures == {"easier", "harder", "paradox", "both"}
TwInputs == {Payload(<<"a", "b", "c">>, 4000), Payload(<<"Y", "E", "S">>, 100)}
\* a full history of creative-input rounds; the quantum-state round whose
\* answer wrote quantum_future has left it
TwHistory ==
    [History(<<<<"a", "b", "c">>, <<"a", "b", "x">>, <<"x", "y", "z">>, <<"a", "b", "c">>>>)
        EXCEPT !.quantum_state = "superposition", !.quantum_future = "both"]
\* api_respond from score_round to the decision, on the latest round of the
\* session: the result recorded and the decision, which holds the session to
\* store and what the response body is made of
Respond(session, p, d, uid) ==
    LET round_obj == session.rounds[Len(session.rounds)]
        sc == score_round(session, round_obj.challenge, p.answer, p.time_ms, now)
        s1 == IF sc.qf = "keep" THEN session
              ELSE [session EXCEPT !.quantum_future = sc.qf]
        res == MkResult(now, p.answer, sc.hs, sc.expl, sc.bl)
    IN [res |-> res,
        dec |-> paradox_decide_next(WriteResult(s1, round_obj.uid, res), res, d, uid)]
NoTwin == [steps |-> 0,
           a |-> [res |-> NoResult,
                  dec |-> Decision(NoSession, FALSE, "none", NoChallenge, NoRoundId)],
           b |-> [res |-> NoResult,
                  dec |-> Decision(NoSession, FALSE, "none", NoChallenge, NoRoundId)]]

InitTwin ==
    /\ InitServer(0)
    /\ backend = "memory"
    /\ \E d \in EffectiveDraws(TwHistory, Factories), q \in Futures \ {"both"} :
         LET p == pick_challenge(TwHistory, FALSE, d)
             s == create_round(p.session, p.challenge, Len(TwHistory.rounds) + 1)
         IN h = [NoTwin EXCEPT !.a.dec.session = s,
                               !.b.dec.session = [s EXCEPT !.quantum_future = q]]

\* one /respond on each session with the same payload and the same draws
AnswerTwin ==
    /\ h.steps < TwSteps
    /\ Len(h.a.dec.session.rounds) = Len(h.b.dec.session.rounds)
    /\ ~h.a.dec.session.rounds[Len(h.a.dec.session.rounds)].result.answered
    /\ \E p \in TwInputs :
         \E d \in EffectiveDraws(h.a.dec.session, Factories) :
           /\ d \in EffectiveDraws(h.b.dec.session, Factories)
           /\ h' = [steps |-> h.steps + 1,
                    a |-> Respond(h.a.dec.session, p, d,
                                  Len(TwHistory.rounds) + h.steps + 2),
                    b |-> Respond(h.b.dec.session, p, d,
                                  Len(TwHistory.rounds) + h.steps + 2)]
    /\ UNCHANGED serverVars

NextTwin == AnswerTwin
SpecTwin == InitTwin /\ [][NextTwin]_vars

\* ---------------------------------------------------------------------
\* Two /respond requests in flight at once (the Flask server is threaded)
\* ---------------------------------------------------------------------
LoadRace == \E r \in Reqs : ReqLoad(r, Inputs, NoFaults)
FinishRace == \E r \in Reqs : ReqFinish(r, Factories)
NextRace == NewSession \/ LoadRace \/ FinishRace
SpecRace == Init /\ [][NextRace]_vars

\* ---------------------------------------------------------------------
\* One client that keeps answering: creative-input challenges only, as many
\* requests as a session can take
\* ---------------------------------------------------------------------
MaxLongSubmits == 8
LongFactories == {"creative_input"}
InitLong == InitServer(MaxLongSubmits) /\ h = NoHarness
NewSessionLong == CreateSession(LongFactories)
LoadLong == ReqLoad(1, Inputs, NoFaults)
FinishLong == ReqFinish(1, LongFactories)
NextLong == NewSessionLong \/ LoadLong \/ FinishLong
SpecLong == InitLong /\ [][NextLong]_vars

\* ---------------------------------------------------------------------
\* The reclaimer and one /respond request over a store that holds sessions:
\* the sessions the sweep finds are drawn (the store outlives the process, and
\* holds whatever was written to it)
\* ---------------------------------------------------------------------
RcMaxRounds == 16
RcMaxDepth == 5
RcSubmits == 1
RcTokens == {"t1", "t2"}
RcFactories == {"creative_input"}

\* a stored session in trap mode with n rounds; the latest round is open unless
\* the session is accepted
RSession(t, n, depth, acc) ==
    [MkSession(t, StartTime) EXCEPT
        !.rounds = [i \in 1..n |->
            [MkRound(RoundId(t, i - 1), i,
                     [challenge_creative_input EXCEPT
                         !.time_dilation = TIME_DILATION_FACTOR_X2]) EXCEPT
                !.result = IF i = n /\ ~acc THEN NoResult
                           ELSE MkResult(StartTime, <<"a">>, 1, "too short", 90)]],
        !.trap_mode = TRUE, !.trap_depth = depth, !.accepted = acc]

\* a stored session that never entered trap mode and is one answer away from
\* the round limit: the request that answers its open round can accept it
RSessionAtLimit(t) ==
    [MkSession(t, StartTime) EXCEPT
        !.rounds = [i \in 1..MAX_ROUNDS |->
            [MkRound(RoundId(t, i - 1), i, challenge_creative_input) EXCEPT
                !.result = IF i = MAX_ROUNDS THEN NoResult
                           ELSE MkResult(StartTime, <<"a", "b", "c">>, 4,
                                         "creative response", 20)]]]

\* the session the request goes to ranges over round counts and depths on both
\* sides of the reclaimer's condition, or is at the round limit; the other
\* session is at the top of both
RSessions(t) ==
    IF t = "t1"
    THEN {RSession(t, n, depth, acc) :
             n \in RECLAIM_MIN_ROUNDS..RcMaxRounds,
             depth \in RECLAIM_MIN_DEPTH..RcMaxDepth, acc \in BOOLEAN}
         \cup {RSessionAtLimit(t)}
    ELSE {RSession(t, RcMaxRounds, RcMaxDepth, acc) : acc \in BOOLEAN}

InitReclaim ==
    \E held \in [RcTokens -> UNION {RSessions(t) : t \in RcTokens}] :
        /\ \A t \in RcTokens : held[t].token = t
        /\ backend \in Backends
        /\ now = StartTime
        /\ redis = IF backend = "redis"
                   THEN [t \in RcTokens |-> Entry(held[t], StartTime)] ELSE EmptyMap
        /\ trap_depths = IF backend = "redis"
                         THEN [t \in {u \in RcTokens : held[u].trap_depth > 3} |->
                                  held[t].trap_depth]
                         ELSE EmptyMap
        /\ memory_sessions = IF backend = "memory"
                             THEN [t \in RcTokens |-> Entry(held[t], StartTime)]
                             ELSE EmptyMap
        /\ req = [r \in Reqs |-> IdleReq]
        /\ resp = NoResp
        /\ rc = IdleRc
        /\ budget = RcSubmits
        /\ nextUid = Max(RcMaxRounds, MAX_ROUNDS) + 1
        /\ issued = [t \in RcTokens |->
                        [i \in 1..Len(held[t].rounds) |-> held[t].rounds[i].round_id]]
        /\ h = NoHarness

LoadRc == ReqLoad(1, Inputs, NoFaults)
FinishRc == ReqFinish(1, RcFactories)
NextReclaim == LoadRc \/ FinishRc \/ RcScan \/ RcGet \/ RcPut \/ RcMem \/ RcSleep
SpecReclaim == InitReclaim /\ [][NextReclaim]_vars

\* ---------------------------------------------------------------------
\* One client whose requests can be wrong in every way /respond tests for
\* ---------------------------------------------------------------------
ErrSubmits == 2
ErrFactories == {"creative_input", "quantum_state"}
\* 'A' * 1001
LongAnswer == [i \in 1..(MAX_ANSWER_LENGTH + 1) |-> "A"]
\* a short answer, which sets trap mode, and one over the length limit
ErrInputs == {Payload(<<"a">>, 100), Payload(LongAnswer, 100)}
InitErrors == InitServer(ErrSubmits) /\ h = NoHarness
NewSessionErr == CreateSession(ErrFactories)
LoadErr == ReqLoad(1, ErrInputs, Faults)
FinishErr == ReqFinish(1, ErrFactories)
NextErrors == NewSessionErr \/ LoadErr \/ FinishErr
SpecErrors == InitErrors /\ [][NextErrors]_vars

\* ---------------------------------------------------------------------
\* One client and the clock: time.time() moves on between requests
\* ---------------------------------------------------------------------
TickSeconds == 350
MaxTicks == 3
ExpSubmits == 2
InitExpiry == InitServer(ExpSubmits) /\ h = NoHarness
NewSessionExp == CreateSession(LongFactories)
LoadExp == ReqLoad(1, Inputs, NoFaults)
FinishExp == ReqFinish(1, LongFactories)
\* time passes while no request is being handled
Tick ==
    /\ \A r \in Reqs : req[r].pc = "idle"
    /\ now < StartTime + MaxTicks * TickSeconds
    /\ now' = now + TickSeconds
    /\ UNCHANGED <<backend, redis, trap_depths, memory_sessions, req, resp, rc,
                   budget, nextUid, issued, h>>
NextExpiry == NewSessionExp \/ LoadExp \/ FinishExp \/ Tick
SpecExpiry == InitExpiry /\ [][NextExpiry]_vars

\* ---------------------------------------------------------------------
\* store_session and get_session on their own, with Redis healthy, absent at
\* startup, or connected at startup and failing later
\* ---------------------------------------------------------------------
Conditions == Backends \cup {"redis_down"}
NoStored == [session |-> NoSession, at |-> 0]
\* the last call, and per token what store_session was last given and when
NoCall == [op |-> "none", token |-> "none", session |-> NoSession, found |-> FALSE,
           raised |-> FALSE, failed |-> FALSE, attempts |-> 0,
           stored |-> [t \in RcTokens |-> NoStored]]
\* new_session(), then a trap depth on either side of the zadd condition
SSession(t, depth) == [MkSession(t, now) EXCEPT !.trap_depth = depth]

InitStore ==
    /\ backend \in Conditions
    /\ now = StartTime
    /\ redis = EmptyMap
    /\ trap_depths = EmptyMap
    /\ memory_sessions = EmptyMap
    /\ req = [r \in Reqs |-> IdleReq]
    /\ resp = NoResp
    /\ rc = IdleRc
    /\ budget = 0
    /\ nextUid = 1
    /\ issued = EmptyMap
    /\ h = NoCall

StorePut(tokens, depths) ==
    \E t \in tokens : \E depth \in depths :
        LET session == SSession(t, depth)
        IN /\ store_session(session)
           /\ h' = [h EXCEPT !.op = "store", !.token = t, !.session = session,
                             !.found = FALSE, !.raised = StoreRaises,
                             !.failed = (backend = "redis_down"),
                             !.attempts = Attempts(1, StoreRaises),
                             !.stored[t] = [session |-> session, at |-> now]]
           /\ UNCHANGED <<backend, now, req, resp, rc, budget, nextUid, issued>>

PutSession == StorePut(Tokens, {0, RcMaxDepth})

GetSession ==
    \E t \in Tokens :
        /\ memory_sessions' = MemoryAfterGet(t)
        /\ h' = [h EXCEPT !.op = "get", !.token = t,
                          !.session = IF Found(t) THEN Got(t) ELSE NoSession,
                          !.found = Found(t), !.raised = FALSE, !.failed = FALSE,
                          !.attempts = 0]
        /\ UNCHANGED <<backend, now, redis, trap_depths, req, resp, rc, budget,
                       nextUid, issued>>

\* Redis stops answering, and answers again
RedisFails ==
    /\ backend = "redis"
    /\ backend' = "redis_down"
    /\ UNCHANGED <<now, redis, trap_depths, memory_sessions, req, resp, rc, budget,
                   nextUid, issued, h>>
RedisRecovers ==
    /\ backend = "redis_down"
    /\ backend' = "redis"
    /\ UNCHANGED <<now, redis, trap_depths, memory_sessions, req, resp, rc, budget,
                   nextUid, issued, h>>

NextStore == PutSession \/ GetSession \/ RedisFails \/ RedisRecovers \/ Tick
SpecStore == InitStore /\ [][NextStore]_vars

\* ---------------------------------------------------------------------
\* store_session for two tokens while time passes and Redis comes and goes:
\* what the in-process map holds after each call
\* ---------------------------------------------------------------------
PutSweep == StorePut(RcTokens, {0})
NextSweep == PutSweep \/ RedisFails \/ RedisRecovers \/ Tick
SpecSweep == InitStore /\ [][NextSweep]_vars

\* ---------------------------------------------------------------------
\* One client that answers every round too briefly, so that the session goes
\* through trap mode into the deep trap; the challenges are the creative-input
\* one, whose context is empty, and the meta-loop and recursive-paradox ones,
\* whose context is not
\* ---------------------------------------------------------------------
IssueSubmits == 4
IssueFactories == {"creative_input", "meta_loop", "recursive_paradox"}
IssueInputs == {Payload(<<"a">>, 100)}
InitIssue == InitServer(IssueSubmits) /\ h = NoHarness
NewSessionIssue == CreateSession(IssueFactories)
LoadIssue == ReqLoad(1, IssueInputs, NoFaults)
FinishIssue == ReqFinish(1, IssueFactories)
NextIssue == NewSessionIssue \/ LoadIssue \/ FinishIssue
SpecIssue == InitIssue /\ [][NextIssue]_vars

\* ---------------------------------------------------------------------
\* One client that keeps answering fast: creative-input challenges only, every
\* answer given in 100 ms
\* ---------------------------------------------------------------------
FastInputs == {Payload(<<"a", "b", "c">>, 100), Payload(<<"a">>, 100)}
LoadFast == ReqLoad(1, FastInputs, NoFaults)
NextFast == NewSessionLong \/ LoadFast \/ FinishLong
SpecFast == InitLong /\ [][NextFast]_vars

\* ---------------------------------------------------------------------
\* score_round on its own: every validator, challenges with and without
\* time_dilation, sessions of up to ScMaxRounds rounds (the last one the round
\* being scored), answers and reported times on both sides of every test
\* ---------------------------------------------------------------------
ScMaxRounds == 40
ScRoundCounts == {1, MAX_STORED_ROUNDS, RECURSION_DEPTH_WARNING + 1, MAX_ROUNDS, ScMaxRounds}
ScAnswers == {<<>>, <<"a">>, <<"a", "b", "c">>, <<"a", "b", "x">>, <<"T", "r", "u", "e">>}
ScTimes == {-4000, 100, 2000, 4000}
\* n - 1 answered creative-input rounds and the round of the selected challenge
ScSession(n, p) ==
    [p.session EXCEPT
        !.rounds = Append(@, MkRound(RoundId("t1", n - 1), n, p.challenge))]
NoScoring == [phase |-> "off", session |-> NoSession, answer |-> <<>>, time_ms |-> 0,
              result |-> NoResult]

InitScore ==
    /\ InitServer(0)
    /\ backend = "memory"
    /\ \E n \in ScRoundCounts, trap \in BOOLEAN, a \in ScAnswers, t \in ScTimes :
         LET past == History([i \in 1..(n - 1) |-> <<"a", "b", "c">>])
         IN \E d \in EffectiveDraws(past, Factories) :
              h = [NoScoring EXCEPT
                      !.phase = "input", !.answer = a, !.time_ms = t,
                      !.session = ScSession(n, pick_challenge(past, trap, d))]

\* human_score, explanation, bot_likelihood = score_round(...), and the result
\* dict api_respond makes of them
ScoreRound ==
    /\ h.phase = "input"
    /\ \E sc \in {score_round(h.session, h.session.rounds[Len(h.session.rounds)].challenge,
                              h.answer, h.time_ms, now)} :
         h' = [h EXCEPT !.phase = "output",
                        !.result = MkResult(now, h.answer, sc.hs, sc.expl, sc.bl)]
    /\ UNCHANGED serverVars

NextScore == ScoreRound
SpecScore == InitScore /\ [][NextScore]_vars

\* ---------------------------------------------------------------------
\* One session taken into deep trap: creative-input challenges, up to
\* TrapSubmits scored requests, two of which may be in flight at once
\* ---------------------------------------------------------------------
TrapSubmits == 5
InitTrap == InitServer(TrapSubmits) /\ h = NoHarness
LoadTrap == \E r \in Reqs : ReqLoad(r, Inputs, NoFaults)
FinishTrap == \E r \in Reqs : ReqFinish(r, LongFactories)
NextTrap == NewSessionLong \/ LoadTrap \/ FinishTrap
SpecTrap == InitTrap /\ [][NextTrap]_vars

\* ---------------------------------------------------------------------
\* Two /respond requests at once on a stored session that is one answer away
\* from the round limit
\* ---------------------------------------------------------------------
\* the stored session is at the round limit, or deep in trap mode
AcceptSessions(t) == {RSessionAtLimit(t), RSession(t, RcMaxRounds, RcMaxDepth, FALSE)}

InitAccept ==
    \E held \in [Tokens -> UNION {AcceptSessions(t) : t \in Tokens}] :
        /\ \A t \in Tokens : held[t].token = t
        /\ backend \in Backends
        /\ now = StartTime
        /\ redis = IF backend = "redis"
                   THEN [t \in Tokens |-> Entry(held[t], StartTime)] ELSE EmptyMap
        /\ trap_depths = IF backend = "redis"
                         THEN [t \in {u \in Tokens : held[u].trap_depth > 3} |->
                                  held[t].trap_depth]
                         ELSE EmptyMap
        /\ memory_sessions = IF backend = "memory"
                             THEN [t \in Tokens |-> Entry(held[t], StartTime)]
                             ELSE EmptyMap
        /\ req = [r \in Reqs |-> IdleReq]
        /\ resp = NoResp
        /\ rc = IdleRc
        /\ budget = MaxSubmits
        /\ nextUid = MAX_ROUNDS + 1
        /\ issued = [t \in Tokens |->
                        [i \in 1..Len(held[t].rounds) |-> held[t].rounds[i].round_id]]
        /\ h = NoHarness

NextAccept == LoadRace \/ FinishRace
SpecAccept == InitAccept /\ [][NextAccept]_vars

\* ---------------------------------------------------------------------
\* The server from startup with the reclaimer thread running: the client of
\* SpecLong, and sweeps that are scheduled fairly (the thread loops forever,
\* sleeping 30 s between sweeps)
\* ---------------------------------------------------------------------
NextRelief ==
    NewSessionLong \/ LoadLong \/ FinishLong \/ RcScan \/ RcGet \/ RcPut \/ RcMem \/ RcSleep
RcFair ==
    /\ WF_vars(RcScan) /\ WF_vars(RcGet) /\ WF_vars(RcPut)
    /\ WF_vars(RcMem) /\ WF_vars(RcSleep)
SpecRelief == InitLong /\ [][NextRelief]_vars /\ RcFair

\* ---------------------------------------------------------------------
\* The server from startup with a client that keeps going: sessions are
\* created and rounds of every challenge type are answered one request at a
\* time with three distinct characters after two seconds, until the client
\* has sent enough answers for REQUIRED_CONSECUTIVE_PASSES passes in a row;
\* each handler runs to its end once it can (a request that came in is
\* answered, a client that may send does send)
\* ---------------------------------------------------------------------
PassSubmits == 3
PassInputs == {Payload(<<"a", "b", "c">>, 2000)}
InitPass == InitServer(PassSubmits) /\ h = NoHarness
LoadPass == ReqLoad(1, PassInputs, NoFaults)
NextPass == NewSession \/ LoadPass \/ Finish
PassFair == WF_vars(NewSession) /\ WF_vars(LoadPass) /\ WF_vars(Finish)
SpecPass == InitPass /\ [][NextPass]_vars /\ PassFair

\* ---------------------------------------------------------------------
\* Properties of paradox_decide_next (SpecDecide)
\* ---------------------------------------------------------------------
\* the counters the function was given, and what one round's result makes of them
HPassesBefore == h.session.consecutive_passes
HDepthBefore == h.session.trap_depth
HIsPass == h.res.human_score >= REQUIRED_HUMAN_SCORE /\ h.res.bot_likelihood < TRAP_MODE_THRESHOLD
HPassesAfter == IF HIsPass THEN HPassesBefore + 1 ELSE 0
HDepthAfter == IF h.res.bot_likelihood >= TRAP_MODE_THRESHOLD
               THEN HDepthBefore + 1 ELSE HDepthBefore
HDecided == h.phase = "output"
\* the round paradox_decide_next appended, if it appended one
HLastRound == h.dec.session.rounds[Len(h.dec.session.rounds)]

\* C1: when, after this round's updates, trap_depth exceeds 3 while
\* consecutive_passes is at least REQUIRED_CONSECUTIVE_PASSES, the action is
\* deep_trap and accepted stays false, in the decision and in the session.
C1_DeepTrapOverAccept ==
    (HDecided /\ HDepthAfter > 3 /\ HPassesAfter >= REQUIRED_CONSECUTIVE_PASSES)
        => /\ h.dec.action = "deep_trap"
           /\ ~h.dec.accepted
           /\ ~h.dec.session.accepted

\* a passing round that reaches the acceptance count in a session already deep
\* in the trap
C1_Witness ==
    /\ HDecided /\ HIsPass
    /\ HDepthAfter > 3 /\ HPassesAfter >= REQUIRED_CONSECUTIVE_PASSES
    /\ h.dec.action = "deep_trap"

\* C2: consecutive_passes becomes its previous value plus one when
\* human_score >= REQUIRED_HUMAN_SCORE and bot_likelihood < TRAP_MODE_THRESHOLD,
\* and 0 in every other case.
C2_ConsecutivePasses ==
    HDecided =>
        h.dec.session.consecutive_passes =
            (IF h.res.human_score < REQUIRED_HUMAN_SCORE THEN 0
             ELSE IF h.res.bot_likelihood >= TRAP_MODE_THRESHOLD THEN 0
             ELSE HPassesBefore + 1)

\* a pass counted on top of earlier passes, in a run that also resets a count
C2_Witness ==
    /\ HDecided /\ HPassesBefore = 2
    /\ h.res.human_score = REQUIRED_HUMAN_SCORE /\ h.res.bot_likelihood = 54
    /\ h.dec.session.consecutive_passes = 3

\* C5: a round that leaves trap_depth at 4 or more gives deep_trap and appends
\* the infinite-regress challenge, whatever consecutive_passes and the round
\* count are; with trap_depth at 3 or less the action is not deep_trap.
C5_DeepTrapAtFour ==
    HDecided =>
        /\ h.dec.session.trap_depth >= 4 =>
               /\ h.dec.action = "deep_trap"
               /\ h.dec.next_challenge.type = "infinite_regress"
               /\ HLastRound.challenge.type = "infinite_regress"
               /\ ~HLastRound.result.answered
               /\ HLastRound.round_id = h.dec.next_round_id
        /\ h.dec.session.trap_depth <= 3 => h.dec.action # "deep_trap"

\* trap_depth reaches 4 on a session at the round limit
C5_Witness ==
    /\ HDecided /\ HDepthBefore = 3 /\ h.dec.session.trap_depth = 4
    /\ Len(h.session.rounds) = MAX_ROUNDS
    /\ h.dec.action = "deep_trap"

\* ---------------------------------------------------------------------
\* Properties of /respond (Spec, SpecRace, SpecLong)
\* ---------------------------------------------------------------------
Scored == resp.status = 200 /\ resp.endpoint = "respond"
\* the first round of a new session, a creative-input challenge
FirstCreativeRound ==
    /\ Scored /\ resp.uid = 1 /\ resp.before.rounds = 1
    /\ resp.before.trap_depth = 0 /\ ~resp.before.trap_mode
    /\ resp.challenge.type = "creative_input"

\* C3: a round the creative-input validator scores as a creative response
\* (human_score 4, bot_likelihood 0.2) takes consecutive_passes from 0 to 1, and
\* a too-short answer sets it to 0.
C3_CreativeIsPass ==
    /\ (/\ Scored /\ resp.challenge.type = "creative_input"
        /\ resp.human_score = 4 /\ resp.bot_likelihood = 20
        /\ resp.before.consecutive_passes = 0)
           => resp.after.consecutive_passes = 1
    /\ (Scored /\ resp.explanation = "too short") => resp.after.consecutive_passes = 0

\* C4: a scored round with bot_likelihood >= 0.55 sets trap_mode and raises
\* trap_depth by exactly 1, a round below 0.55 leaves both unchanged; a new
\* session whose first creative-input challenge is answered with one character
\* gets (1, "too short", 0.9), trap_mode true and trap_depth 1.
C4_TrapUpdate ==
    /\ (Scored /\ resp.bot_likelihood >= 55)
           => /\ resp.after.trap_mode
              /\ resp.after.trap_depth = resp.before.trap_depth + 1
    /\ (Scored /\ resp.bot_likelihood < 55)
           => /\ resp.after.trap_mode = resp.before.trap_mode
              /\ resp.after.trap_depth = resp.before.trap_depth
    /\ (FirstCreativeRound /\ Len(resp.answer) = 1)
           => /\ resp.human_score = 1 /\ resp.explanation = "too short"
              /\ resp.bot_likelihood = 90
              /\ resp.after.trap_mode /\ resp.after.trap_depth = 1
              /\ resp.trap_depth = 1

\* a second suspicious round in a row: the trap deepens from 1 to 2
C4_Witness ==
    /\ Scored /\ resp.bot_likelihood >= 55
    /\ resp.before.trap_mode /\ resp.before.trap_depth = 1
    /\ resp.after.trap_depth = 2
    /\ \E t \in DOMAIN issued : Len(issued[t]) = 3

\* a round id of the session that still names a round without result
Answerable(t) ==
    /\ Found(t)
    /\ \E rid \in Range(issued[t]) :
         LET i == FindRound(Got(t), rid)
         IN i # 0 /\ ~Got(t).rounds[i].result.answered

\* C6: a session that never entered trap_mode and has answered every round it
\* was given up to the round limit has ended with accepted_after_limit and
\* accepted = true.
C6_AcceptedAfterLimit ==
    \A t \in DOMAIN issued :
        (/\ Found(t) /\ ~Answerable(t)
         /\ ~Got(t).trap_mode
         /\ Got(t).consecutive_passes < REQUIRED_CONSECUTIVE_PASSES)
            => /\ Got(t).accepted
               /\ Scored => resp.action = "accepted_after_limit"

\* C7: the round ids issued within a session are pairwise distinct, and the
\* id of the k-th issued round is the hash of (token, k - 1).
C7_RoundIdsDistinct ==
    \A t \in DOMAIN issued :
        /\ \A j, k \in DOMAIN issued[t] : j # k => issued[t][j] # issued[t][k]
        /\ \A k \in DOMAIN issued[t] : issued[t][k] = RoundId(t, k - 1)

\* C8: two requests on the same unresolved round: no request that gets as far
\* as scoring finds, when it stores, that the stored session already holds a
\* result for its round (the result is written once, the decision applied
\* once, the first writer's state is not overwritten).
C8_WriteOnce == Scored => ~resp.resolved

C10_SweepEffect ==
    /\ rc.last.valid =>
          LET read == rc.last.read
              stored == rc.last.stored
              n == Len(read.rounds)
          IN IF ~read.accepted /\ n > 15 /\ read.trap_depth > 3
             THEN /\ Len(stored.rounds) = 5
                  /\ \A i \in 1..5 : stored.rounds[i] = read.rounds[n - 5 + i]
                  /\ stored.trap_depth = read.trap_depth - 1
                  /\ stored = [read EXCEPT !.rounds = stored.rounds,
                                           !.trap_depth = stored.trap_depth]
             ELSE stored = rc.last.before
    /\ (rc.swept /\ rc.pc = "idle") =>
          \A t \in RcTokens :
              Found(t) => ~(/\ ~Got(t).accepted /\ Len(Got(t).rounds) > 15
                            /\ Got(t).trap_depth > 3)

\* the sweep has cut a 16-round session at depth 5 down to 5 rounds at depth 4,
\* and has run to its end
C10_Witness ==
    /\ rc.swept /\ rc.pc = "idle" /\ rc.last.valid
    /\ \E t \in RcTokens :
         /\ Found(t) /\ Len(Got(t).rounds) = 5 /\ Got(t).trap_depth = 4
         /\ Got(t).rounds[1].round_id = RoundId(t, 11)
         /\ resp = NoResp

\* a stored, non-accepted session held in deep trap
DeepTrapped(t) ==
    Found(t) /\ ~Got(t).accepted /\ Got(t).trap_depth > 3
\* a sweep has lowered the trap_depth of the session
Relieved(t) ==
    /\ rc.last.valid /\ rc.last.token = t
    /\ rc.last.stored.trap_depth < rc.last.read.trap_depth

\* C11: a non-accepted session held in deep trap (trap_depth > 3) is
\* eventually relieved: with the reclaimer scheduled fairly, some sweep lowers
\* its trap_depth.
C11_EventuallyRelieved ==
    \A t \in Tokens : DeepTrapped(t) ~> Relieved(t)

Signed(rq) == rq.signature = hmac_new(HMAC_SECRET, canonical_json_obj(rq.payload))
\* a response that reports an error
Failed(r) == r.status # 0 /\ r.status # 200

\* C14: a /respond whose signature header is missing or does not verify is
\* rejected before get_session is called and changes no stored session, and
\* every request that gets to scoring carries the digest of its own payload
\* under the server's key.
C14_SignatureGate ==
    [][/\ (resp' # resp /\ resp'.raised_status = 403)
           => /\ ~resp'.loaded
              /\ UNCHANGED <<redis, trap_depths, memory_sessions, req, issued>>
       /\ \A r \in Reqs : req'[r].pc = "scoring" => Signed(req'[r])]_vars
\* a bad signature was refused while the session had a round to answer
C14_Witness ==
    /\ resp.raised_error = "Invalid signature"
    /\ \E t \in Tokens : Answerable(t)

\* the category Flask's error handlers give a status
Category(status) ==
    CASE status = 400 -> "bad_request"
      [] status = 403 -> "forbidden"
      [] status = 404 -> "not_found"
      [] OTHER -> "internal_server_error"

\* C15: a client error is answered with the status it was raised with and that
\* status's category: 403 forbidden, 404 not_found, 400 bad_request.
C15_OwnCategory ==
    resp.raised_status \in {400, 403, 404}
        => resp.status = resp.raised_status /\ resp.error = Category(resp.raised_status)

\* C16: an answer for a round that has a result is answered 400 bad_request
\* ("Round already answered"), and the store is the same after it.
C16_AlreadyAnswered ==
    [][(resp' # resp /\ resp'.raised_error = "Round already answered")
          => /\ resp'.status = 400 /\ resp'.error = "bad_request"
             /\ UNCHANGED <<redis, trap_depths, memory_sessions>>]_vars

\* C17: a /respond that ends in an error leaves redis, the trap_depths set and
\* the in-process map as they were.
C17_ErrorKeepsStore ==
    [][(resp' # resp /\ Failed(resp'))
          => UNCHANGED <<redis, trap_depths, memory_sessions>>]_vars

\* C18: no request is scored for a session whose expiry (created_at + 600 s)
\* has passed: the session a request at score_round holds is not past it.
C18_ExpiredNotScored ==
    \A r \in Reqs : req[r].pc = "scoring" => now <= req[r].session.expiry

\* C19: store_session raises nothing, and a get_session made before the TTL of
\* the last store_session of that token has run out returns the session that
\* call was given, whatever the state of the backend.
C19_StoredThenFound ==
    /\ ~h.raised
    /\ (/\ h.op = "get"
        /\ h.stored[h.token].session # NoSession
        /\ now < h.stored[h.token].at + SESSION_EXPIRY_SECONDS)
           => h.found /\ h.session = h.stored[h.token].session

\* C20: a store_session whose Redis write failed has called the write
\* STOP_AFTER_ATTEMPT times before the in-process map was written.
C20_ThreeAttempts ==
    (h.op = "store" /\ h.failed) => h.attempts = STOP_AFTER_ATTEMPT

\* C21: when a store_session returns, the in-process map holds at most
\* HIGH_WATER_MARK entries and none whose expiry has passed. (A step that
\* leaves the clock and the backend alone is a store_session call.)
C21_MapSwept ==
    [][(h'.op = "store" /\ now' = now /\ backend' = backend)
          => /\ Cardinality(DOMAIN memory_sessions') <= HIGH_WATER_MARK
             /\ \A k \in DOMAIN memory_sessions' : memory_sessions'[k].expires > now']_vars

\* the keys of VALIDATORS
ValidatorKeys == Range(ALL_CHALLENGE_FACTORIES)
\* a challenge as a response carries it, without the hidden fields
Hidden(challenge) ==
    /\ ~challenge.has_context /\ challenge.context = EmptyContext
    /\ ~challenge.has_validator_key /\ challenge.validator_key \notin ValidatorKeys
\* a challenge as a stored round carries it
Kept(challenge) ==
    /\ challenge.has_context
    /\ challenge.has_validator_key /\ challenge.validator_key \in ValidatorKeys

\* C22: the challenge in a /session response and the next_challenge in a
\* /respond response carry neither context nor validator_key, and the
\* challenge of every stored round carries both.
C22_HiddenFields ==
    /\ resp.status = 200 => Hidden(resp.next_challenge)
    /\ \A t \in Tokens : Found(t) =>
           \A i \in DOMAIN Got(t).rounds : Kept(Got(t).rounds[i].challenge)
\* a deep_trap response, after a /session response and continue responses, in
\* a session whose stored rounds hold a challenge with a filled context
C22_Witness ==
    /\ Scored /\ resp.action = "deep_trap"
    /\ resp.next_challenge.type = "infinite_regress"
    /\ \E i \in DOMAIN Got(resp.token).rounds :
           Got(resp.token).rounds[i].challenge.context # EmptyContext

\* a response that carries a challenge pick_challenge selected
Picked == resp.status = 200 /\ resp.drawn # "none"
\* the stored round that holds the challenge the response carries
IssuedRound ==
    LET session == Got(resp.token)
    IN session.rounds[FindRound(session, resp.next_round_id)]

C24_DilationInTrap ==
    Picked =>
        /\ resp.next_challenge.type \in Range(ALL_CHALLENGE_FACTORIES)
        /\ resp.next_challenge.time_dilation =
               IF resp.endpoint = "respond" /\ resp.after.trap_mode
               THEN TIME_DILATION_FACTOR_X2 ELSE 0
        /\ IssuedRound.challenge.time_dilation = resp.next_challenge.time_dilation
\* a challenge selected in trap mode
C24_Witness ==
    /\ Picked /\ resp.endpoint = "respond" /\ resp.after.trap_mode
    /\ resp.next_challenge.time_dilation = TIME_DILATION_FACTOR_X2

\* what the validator bound to the round request r is scoring does
Validated(r) ==
    VALIDATORS(req[r].challenge.validator_key, req[r].answer, Working(r),
               req[r].challenge.context, now)
\* where the stored session holds the round the response is about (0: nowhere),
\* and the result it holds for it
StoredIndex ==
    IF Found(resp.token) THEN FindObject(Got(resp.token), resp.uid) ELSE 0
StoredResult == Got(resp.token).rounds[StoredIndex].result

\* C25: when the validator raises while a round is scored, the request is
\* answered 200 with human_score 2, bot_likelihood 0.5 and the explanation
\* "validator error", the decision is taken on that result and the session
\* stored holds it.
C25_NeutralOnRaise ==
    [][\A r \in Reqs :
          (req[r].pc = "scoring" /\ req'[r].pc = "idle" /\ Validated(r).raised)
              => /\ resp'.status = 200 /\ resp'.uid = req[r].uid
                 /\ resp'.human_score = 2 /\ resp'.bot_likelihood = 50
                 /\ resp'.explanation = "validator error"
                 /\ resp'.action \in {"continue", "deep_trap", "accepted",
                                      "accepted_after_limit", "fallback_traditional"}
                 /\ resp'.after.consecutive_passes = 0
                 /\ resp'.after.trap_depth = resp'.before.trap_depth
                 /\ StoredIndex' # 0
                 /\ StoredResult'.answered
                 /\ StoredResult'.human_score = 2 /\ StoredResult'.bot_likelihood = 50]_vars
\* a round whose validator raised was answered
C25_Witness ==
    /\ Scored /\ resp.explanation = "validator error"
    /\ resp.challenge.type = "recursive_paradox" /\ resp.action = "continue"

PriorCorrect ==
    LET session == Got(resp.token)
    IN Cardinality({i \in DOMAIN session.rounds :
                       /\ session.rounds[i].uid # resp.uid
                       /\ session.rounds[i].result.answered
                       /\ session.rounds[i].result.human_score >= 3})

\* C27: a recursive-paradox round scored by /respond is recorded as (4, 0.3)
\* when the answer is valid and as (1, 0.7) when it is not: the answer n is
\* valid iff the prior rounds scoring >= 3 are n, "True" iff they are more than
\* n/2, "False" iff they are at most n/2, and any other answer always. (Rounds
\* without time_dilation, whose bot_likelihood no timing penalty raises.)
C27_RecursiveScores ==
    (/\ Scored /\ resp.challenge.type = "recursive_paradox"
     /\ resp.challenge.time_dilation = 0 /\ Found(resp.token))
        => LET n == resp.challenge.context.round_num
               valid == IF resp.answer = Str(n) THEN PriorCorrect = n
                        ELSE IF resp.answer = <<"T", "r", "u", "e">>
                            THEN 2 * PriorCorrect > n
                        ELSE IF resp.answer = <<"F", "a", "l", "s", "e">>
                            THEN 2 * PriorCorrect <= n
                        ELSE TRUE
           IN /\ resp.human_score = (IF valid THEN 4 ELSE 1)
              /\ resp.bot_likelihood = (IF valid THEN 30 ELSE 70)

\* the verdict the position-by-position overlap of answer and target earns:
\* strictly between 20% and 80% of the target's length
OverlapVerdict(answer, target) ==
    LET overlap == Cardinality({i \in 1..Min(Len(answer), Len(target)) :
                                   answer[i] = target[i]})
    IN IF 5 * overlap > Len(target) /\ 5 * overlap < 4 * Len(target)
       THEN Score(4, "human-like recall", 20)
       ELSE Score(1, "exact or no match", 80)

\* C28: the meta-loop validator's result is the verdict of the overlap between
\* the answer and the referenced past answer, or between the answer and the most
\* recent of the past answers: (4, 0.2) when the ratio is strictly between 20%
\* and 80%, (1, 0.8) otherwise.
C28_MetaOverlap ==
    h.phase = "output"
        => LET prev == h.challenge.context.prev_answers
           IN \/ h.result = OverlapVerdict(h.answer, h.ref)
              \/ h.result = OverlapVerdict(h.answer, prev[Len(prev)])

\* the answered rounds of the session whose answer time is closest to 5
\* seconds before now
ClosestToPast ==
    LET rounds == h.session.rounds
        answered == {i \in DOMAIN rounds : rounds[i].result.answered}
        diff(i) == Abs(rounds[i].result.answered_at - (now - 5))
    IN {i \in answered : \A j \in answered : diff(i) <= diff(j)}

\* C29: the temporal-paradox validator returns (2, 0.5) when the answer equals
\* the answer of the answered round closest in time to 5 seconds before the
\* scoring (any of them, when several are equally close), and (3, 0.3)
\* otherwise, also when no round was answered.
C29_ClosestRound ==
    h.phase = "output"
        => IF ClosestToPast = {}
           THEN h.result = Score(3, "human time variance", 30)
           ELSE \E i \in ClosestToPast :
                  h.result = IF h.answer = h.session.rounds[i].result.answer
                             THEN Score(2, "time match", 50)
                             ELSE Score(3, "human time variance", 30)

\* C30: two sessions that differ in quantum_future only and are given the
\* same answers and the same random draws get the same scores, actions, next
\* challenges and counters, and hold the same rounds.
C30_HintUnread ==
    h.steps > 0
        => /\ h.a.res = h.b.res
           /\ [h.a.dec EXCEPT !.session.quantum_future = "none"]
                  = [h.b.dec EXCEPT !.session.quantum_future = "none"]
\* two answers in, the sessions still differ in the hint and a challenge was
\* selected for a session whose hint is "easier"
C30_Witness ==
    /\ h.steps = TwSteps
    /\ h.a.dec.session.quantum_future = "both"
    /\ h.b.dec.session.quantum_future = "easier"
    /\ h.b.dec.action = "continue"
    /\ h.b.dec.next_challenge.type = "meta_loop"

\* C31: with MAX_ROUNDS rounds or more, when neither the deep-trap nor the
\* consecutive-pass branch applies, paradox_decide_next returns
\* fallback_traditional and accepted false for a session that is or has just
\* been put in trap mode, accepted_after_limit and accepted true otherwise; it
\* appends no round and returns no challenge.
C31_RoundLimit ==
    (/\ HDecided /\ Len(h.session.rounds) >= MAX_ROUNDS
     /\ HDepthAfter <= DEEP_TRAP_DEPTH /\ HPassesAfter < REQUIRED_CONSECUTIVE_PASSES)
        => /\ IF h.session.trap_mode \/ h.res.bot_likelihood >= TRAP_MODE_THRESHOLD
              THEN /\ h.dec.action = "fallback_traditional"
                   /\ ~h.dec.accepted /\ ~h.dec.session.accepted
              ELSE /\ h.dec.action = "accepted_after_limit"
                   /\ h.dec.accepted /\ h.dec.session.accepted
           /\ h.dec.session.rounds = h.session.rounds
           /\ h.dec.next_challenge = NoChallenge /\ h.dec.next_round_id = NoRoundId
\* a session at the limit that enters trap mode with this round
C31_Witness ==
    /\ HDecided /\ Len(h.session.rounds) = MAX_ROUNDS
    /\ ~h.session.trap_mode /\ h.res.bot_likelihood = 55
    /\ h.dec.action = "fallback_traditional"

\* the bot_likelihood score_round starts from for the round request r is
\* scoring: the validator's, or the neutral 0.5 when the validator raises
BaseLikelihood(r) == IF Validated(r).raised THEN 50 ELSE Validated(r).bl

\* C32: a round whose challenge carries time_dilation 1.5 is recorded with the
\* base bot_likelihood raised by 0.3 (at most 1.0) exactly when time_ms is
\* above 3000, and with the base bot_likelihood otherwise; a round whose
\* challenge carries no time_dilation is recorded with the base bot_likelihood.
\* (Sessions of at most RECURSION_DEPTH_WARNING rounds: no fatigue penalty.)
C32_DilationPenalty ==
    [][\A r \in Reqs :
          (/\ req[r].pc = "scoring" /\ req'[r].pc = "idle" /\ resp'.status = 200
           /\ Len(Working(r).rounds) <= RECURSION_DEPTH_WARNING)
              => resp'.bot_likelihood =
                     IF req[r].challenge.time_dilation = TIME_DILATION_FACTOR_X2
                        /\ req[r].time_ms > 3000
                     THEN Min(100, BaseLikelihood(r) + DILATION_PENALTY)
                     ELSE BaseLikelihood(r)]_vars

\* C33: once more than RECURSION_DEPTH_WARNING rounds were issued to a session, a
\* round whose validator scores above 3 and that was answered in less than
\* 1500 ms is recorded with the validator's bot_likelihood raised by 0.2 x
\* (round count / 10), at most 1.0.
C33_FatiguePenalty ==
    [][\A r \in Reqs :
          (/\ req[r].pc = "scoring" /\ req'[r].pc = "idle" /\ resp'.status = 200
           /\ ~Validated(r).raised /\ Validated(r).hs > FATIGUE_MIN_SCORE
           /\ req[r].time_ms < FATIGUE_FAST_MS
           /\ Len(issued[req[r].token]) > RECURSION_DEPTH_WARNING)
              => resp'.bot_likelihood =
                     FatigueRaise(Validated(r).bl, Len(issued[req[r].token]))]_vars

\* C34: in every stored session the rounds are in the order they were issued,
\* at most one round has no result, and that round is the last one.
C34_OneOpenRoundLast ==
    \A t \in Tokens :
        Found(t) =>
            LET rounds == Got(t).rounds
            IN /\ \A i, j \in DOMAIN rounds : i < j => rounds[i].uid < rounds[j].uid
               /\ \A i \in DOMAIN rounds : ~rounds[i].result.answered => i = Len(rounds)
\* a history that was cut: seven rounds issued, five stored, the last one open
C34_Witness ==
    /\ Found("t1") /\ Len(issued["t1"]) >= MAX_STORED_ROUNDS + 2
    /\ Len(Got("t1").rounds) = MAX_STORED_ROUNDS
    /\ ~Got("t1").rounds[MAX_STORED_ROUNDS].result.answered
    /\ Got("t1").rounds[MAX_STORED_ROUNDS - 1].result.answered

\* C35: every result score_round produces has human_score in 1..4 and
\* bot_likelihood in [0, 1].
C35_ScoresInRange ==
    h.phase = "output"
        => /\ h.result.human_score \in 1..4
           /\ h.result.bot_likelihood >= 0 /\ h.result.bot_likelihood <= 100
\* the cap at work: a too-short answer (0.9) to a dilated challenge, given slowly
C35_Witness ==
    /\ h.phase = "output" /\ h.time_ms = 4000
    /\ h.session.rounds[Len(h.session.rounds)].challenge.type = "creative_input"
    /\ h.session.rounds[Len(h.session.rounds)].challenge.time_dilation # 0
    /\ h.result.explanation = "too short" /\ h.result.bot_likelihood = 100

\* how many of the latest answered rounds of the session, counted back from the
\* most recent one without a gap, have a bot_likelihood of 0.55 or more
RecentEscalations(session) ==
    LET IsAnswered(r) == r.result.answered
        answered == SelectSeq(session.rounds, IsAnswered)
        n == Len(answered)
    IN Cardinality({k \in 1..n :
                       \A j \in (n - k + 1)..n :
                           answered[j].result.bot_likelihood >= TRAP_MODE_THRESHOLD})

\* C36: after a scored round, trap_depth is the number of most recent
\* consecutive rounds scored with bot_likelihood >= 0.55; a round scored below
\* the threshold leaves it at 0. (Histories short enough to be stored whole, no
\* reclaimer decay.)
C36_ConsecutiveEscalations ==
    (Scored /\ Found(resp.token) /\ Len(issued[resp.token]) <= MAX_STORED_ROUNDS)
        => /\ resp.trap_depth = RecentEscalations(Got(resp.token))
           /\ Got(resp.token).trap_depth = resp.trap_depth

\* C37: once the stored session is in deep trap (a response returned deep_trap
\* and left trap_depth above 3), every round of that session scored afterwards
\* raises trap_depth again and returns deep_trap with accepted false.
C37_DeepTrapAbsorbs ==
    [][\A r \in Reqs :
          (/\ req[r].pc = "scoring" /\ req'[r].pc = "idle" /\ resp'.status = 200
           /\ Found(req[r].token) /\ Got(req[r].token).trap_depth > DEEP_TRAP_DEPTH)
              => /\ resp'.action = "deep_trap" /\ ~resp'.accepted
                 /\ resp'.trap_depth > Got(req[r].token).trap_depth]_vars


\* the response of a /respond reports acceptance and the stored session
\* carries the accepted flag
AcceptedByPasses ==
    /\ Scored /\ resp.action = "accepted" /\ resp.accepted
    /\ Found(resp.token) /\ Got(resp.token).accepted

====
